---- MODULE Spec2Model ----
(***************************************************************************)
(* A model of the Quoridor rules engine of src/game.js (class Game and its *)
(* helpers).  A Game object is a record with the fields of the class; the  *)
(* 2D arrays are functions indexed from 0, as in the source.  Every method *)
(* that mutates `this` is an operator from a game record to the game       *)
(* record after the call (with the return value where there is one).       *)
(***************************************************************************)
EXTENDS Integers, Sequences, FiniteSets, TLC

(***************************************************************************)
(* Program constants.                                                      *)
(***************************************************************************)
BoardSize == 9
WallGridSize == 8
InitialWalls == 10

(***************************************************************************)
(* Bounds of the model.                                                    *)
(***************************************************************************)
\* number of doMove calls explored after the opening
MaxMoves == 2
\* pawn targets offered to doMove: cells at Manhattan distance <= Reach
Reach == 2

Null == <<>>

MOVE_UP == <<-1, 0>>
MOVE_DOWN == <<1, 0>>
MOVE_LEFT == <<0, -1>>
MOVE_RIGHT == <<0, 1>>

Rows == 0..(BoardSize - 1)
WallIdx == 0..(WallGridSize - 1)

create2DArrayInitializedTo(numOfRow, numOfCol, initialValue) ==
    [i \in 0..(numOfRow - 1) |-> [j \in 0..(numOfCol - 1) |-> initialValue]]

logicalAndBetween2DArray(arr2DA, arr2DB) ==
    [i \in DOMAIN arr2DA |-> [j \in DOMAIN arr2DA[i] |-> arr2DA[i][j] /\ arr2DB[i][j]]]

\* the entries of a 2D array that hold true
TrueCells(arr2D) == {<<i, j>> \in (DOMAIN arr2D) \X (DOMAIN arr2D[0]) : arr2D[i][j]}

PawnPosition(row, col) == [row |-> row, col |-> col]

newAddMove(position, pawnMoveTuple) ==
    PawnPosition(position.row + pawnMoveTuple[1], position.col + pawnMoveTuple[2])

Pawn(index, isHumanSide, isHumanPlayer) ==
    [index |-> index,
     isHumanSide |-> isHumanSide,
     isHumanPlayer |-> isHumanPlayer,
     position |-> IF isHumanSide THEN PawnPosition(8, 4) ELSE PawnPosition(0, 4),
     goalRow |-> IF isHumanSide THEN 0 ELSE 8,
     numberOfLeftWalls |-> InitialWalls]

\* the Board constructor with the human side always given to pawn 0
Board_humanAlwaysFirst(isHumanPlayerFirst) ==
    [pawns |-> [i \in 0..1 |-> IF i = 0 THEN Pawn(0, TRUE, TRUE) ELSE Pawn(1, FALSE, FALSE)],
     walls |-> [horizontal |-> create2DArrayInitializedTo(WallGridSize, WallGridSize, FALSE),
                vertical |-> create2DArrayInitializedTo(WallGridSize, WallGridSize, FALSE)]]

Board(isHumanPlayerFirst) ==
    [pawns |-> IF isHumanPlayerFirst
               THEN [i \in 0..1 |-> IF i = 0 THEN Pawn(0, TRUE, TRUE) ELSE Pawn(1, FALSE, FALSE)]
               ELSE [i \in 0..1 |-> IF i = 0 THEN Pawn(0, FALSE, FALSE) ELSE Pawn(1, TRUE, TRUE)],
     walls |-> [horizontal |-> create2DArrayInitializedTo(WallGridSize, WallGridSize, FALSE),
                vertical |-> create2DArrayInitializedTo(WallGridSize, WallGridSize, FALSE)]]

(***************************************************************************)
(* Getters and the turn setter.                                            *)
(***************************************************************************)
pawnIndexOfTurn(g) == g._turn % 2
pawnIndexOfNotTurn(g) == (g._turn + 1) % 2
pawnOfTurn(g) == g.board.pawns[pawnIndexOfTurn(g)]
pawnOfNotTurn(g) == g.board.pawns[pawnIndexOfNotTurn(g)]

\* the turn setter storing one more than it is given
setTurn_oneMore(g, newTurn) ==
    [g EXCEPT !._turn = newTurn + 1,
              !._validNextPositionsUpdated = FALSE,
              !._probableValidNextWallsUpdated = FALSE]

setTurn(g, newTurn) ==
    [g EXCEPT !._turn = newTurn,
              !._validNextPositionsUpdated = FALSE,
              !._probableValidNextWallsUpdated = FALSE]

(***************************************************************************)
(* Passage tests.                                                          *)
(***************************************************************************)
\* isValidNextMoveNotConsideringOtherPawn with the wall test of the move to
\* the left dropped
isValidNextMoveNotConsideringOtherPawn_ignoreLeftWall(g, currentPosition, pawnMoveTuple) ==
    IF pawnMoveTuple = MOVE_UP
    THEN currentPosition.row > 0
         /\ g.openWays.upDown[currentPosition.row - 1][currentPosition.col]
    ELSE IF pawnMoveTuple = MOVE_DOWN
    THEN currentPosition.row < 8
         /\ g.openWays.upDown[currentPosition.row][currentPosition.col]
    ELSE IF pawnMoveTuple = MOVE_LEFT
    THEN currentPosition.col > 0
    ELSE currentPosition.col < 8
         /\ g.openWays.leftRight[currentPosition.row][currentPosition.col]

isValidNextMoveNotConsideringOtherPawn(g, currentPosition, pawnMoveTuple) ==
    IF pawnMoveTuple = MOVE_UP
    THEN currentPosition.row > 0
         /\ g.openWays.upDown[currentPosition.row - 1][currentPosition.col]
    ELSE IF pawnMoveTuple = MOVE_DOWN
    THEN currentPosition.row < 8
         /\ g.openWays.upDown[currentPosition.row][currentPosition.col]
    ELSE IF pawnMoveTuple = MOVE_LEFT
    THEN currentPosition.col > 0
         /\ g.openWays.leftRight[currentPosition.row][currentPosition.col - 1]
    ELSE currentPosition.col < 8
         /\ g.openWays.leftRight[currentPosition.row][currentPosition.col]

isOpenWay(g, currentRow, currentCol, pawnMoveTuple) ==
    IF pawnMoveTuple = MOVE_UP
    THEN currentRow > 0 /\ g.openWays.upDown[currentRow - 1][currentCol]
    ELSE IF pawnMoveTuple = MOVE_DOWN
    THEN currentRow < 8 /\ g.openWays.upDown[currentRow][currentCol]
    ELSE IF pawnMoveTuple = MOVE_LEFT
    THEN currentCol > 0 /\ g.openWays.leftRight[currentRow][currentCol - 1]
    ELSE currentCol < 8 /\ g.openWays.leftRight[currentRow][currentCol]

(***************************************************************************)
(* Legal pawn destinations (with the jump rules) and their cache.          *)
(***************************************************************************)
\* _set_validNextPositionsToward with the two lateral jumps offered beside
\* the straight jump, not only when the straight jump is closed
set_validNextPositionsToward_alwaysLateral(g, vnp, mainMove, subMove1, subMove2) ==
    IF isValidNextMoveNotConsideringOtherPawn(g, pawnOfTurn(g).position, mainMove)
    THEN LET mainMovePosition == newAddMove(pawnOfTurn(g).position, mainMove)
         IN IF mainMovePosition = pawnOfNotTurn(g).position
            THEN LET mainMainMovePosition == newAddMove(mainMovePosition, mainMove)
                     mainSub1MovePosition == newAddMove(mainMovePosition, subMove1)
                     mainSub2MovePosition == newAddMove(mainMovePosition, subMove2)
                     vnp0 == IF isValidNextMoveNotConsideringOtherPawn(g, mainMovePosition, mainMove)
                             THEN [vnp EXCEPT ![mainMainMovePosition.row][mainMainMovePosition.col] = TRUE]
                             ELSE vnp
                     vnp1 == IF isValidNextMoveNotConsideringOtherPawn(g, mainMovePosition, subMove1)
                             THEN [vnp0 EXCEPT ![mainSub1MovePosition.row][mainSub1MovePosition.col] = TRUE]
                             ELSE vnp0
                 IN IF isValidNextMoveNotConsideringOtherPawn(g, mainMovePosition, subMove2)
                    THEN [vnp1 EXCEPT ![mainSub2MovePosition.row][mainSub2MovePosition.col] = TRUE]
                    ELSE vnp1
            ELSE [vnp EXCEPT ![mainMovePosition.row][mainMovePosition.col] = TRUE]
    ELSE vnp

\* _set_validNextPositionsToward with the second lateral jump left out
set_validNextPositionsToward_oneLateral(g, vnp, mainMove, subMove1, subMove2) ==
    IF isValidNextMoveNotConsideringOtherPawn(g, pawnOfTurn(g).position, mainMove)
    THEN LET mainMovePosition == newAddMove(pawnOfTurn(g).position, mainMove)
         IN IF mainMovePosition = pawnOfNotTurn(g).position
            THEN IF isValidNextMoveNotConsideringOtherPawn(g, mainMovePosition, mainMove)
                 THEN LET mainMainMovePosition == newAddMove(mainMovePosition, mainMove)
                      IN [vnp EXCEPT ![mainMainMovePosition.row][mainMainMovePosition.col] = TRUE]
                 ELSE LET mainSub1MovePosition == newAddMove(mainMovePosition, subMove1)
                      IN IF isValidNextMoveNotConsideringOtherPawn(g, mainMovePosition, subMove1)
                         THEN [vnp EXCEPT ![mainSub1MovePosition.row][mainSub1MovePosition.col] = TRUE]
                         ELSE vnp
            ELSE [vnp EXCEPT ![mainMovePosition.row][mainMovePosition.col] = TRUE]
    ELSE vnp

\* _set_validNextPositionsToward without the test for the other pawn on the
\* neighbouring cell: the cell is offered whoever stands on it
set_validNextPositionsToward_ontoOtherPawn(g, vnp, mainMove, subMove1, subMove2) ==
    IF isValidNextMoveNotConsideringOtherPawn(g, pawnOfTurn(g).position, mainMove)
    THEN LET mainMovePosition == newAddMove(pawnOfTurn(g).position, mainMove)
         IN [vnp EXCEPT ![mainMovePosition.row][mainMovePosition.col] = TRUE]
    ELSE vnp

\* vnp is this._validNextPositions while it is being filled
set_validNextPositionsToward(g, vnp, mainMove, subMove1, subMove2) ==
    IF isValidNextMoveNotConsideringOtherPawn(g, pawnOfTurn(g).position, mainMove)
    THEN LET mainMovePosition == newAddMove(pawnOfTurn(g).position, mainMove)
         IN IF mainMovePosition = pawnOfNotTurn(g).position
            THEN IF isValidNextMoveNotConsideringOtherPawn(g, mainMovePosition, mainMove)
                 THEN LET mainMainMovePosition == newAddMove(mainMovePosition, mainMove)
                      IN [vnp EXCEPT ![mainMainMovePosition.row][mainMainMovePosition.col] = TRUE]
                 ELSE LET mainSub1MovePosition == newAddMove(mainMovePosition, subMove1)
                          mainSub2MovePosition == newAddMove(mainMovePosition, subMove2)
                          vnp1 == IF isValidNextMoveNotConsideringOtherPawn(g, mainMovePosition, subMove1)
                                  THEN [vnp EXCEPT ![mainSub1MovePosition.row][mainSub1MovePosition.col] = TRUE]
                                  ELSE vnp
                      IN IF isValidNextMoveNotConsideringOtherPawn(g, mainMovePosition, subMove2)
                         THEN [vnp1 EXCEPT ![mainSub2MovePosition.row][mainSub2MovePosition.col] = TRUE]
                         ELSE vnp1
            ELSE [vnp EXCEPT ![mainMovePosition.row][mainMovePosition.col] = TRUE]
    ELSE vnp

\* the recomputation branch of the validNextPositions getter
computeValidNextPositions(g) ==
    LET v0 == create2DArrayInitializedTo(BoardSize, BoardSize, FALSE)
        v1 == set_validNextPositionsToward(g, v0, MOVE_UP, MOVE_LEFT, MOVE_RIGHT)
        v2 == set_validNextPositionsToward(g, v1, MOVE_DOWN, MOVE_LEFT, MOVE_RIGHT)
        v3 == set_validNextPositionsToward(g, v2, MOVE_LEFT, MOVE_UP, MOVE_DOWN)
    IN set_validNextPositionsToward(g, v3, MOVE_RIGHT, MOVE_UP, MOVE_DOWN)

\* the game after a read of the validNextPositions getter; the value read is
\* the _validNextPositions field of the result
validNextPositions(g) ==
    IF g._validNextPositionsUpdated = TRUE
    THEN g
    ELSE [g EXCEPT !._validNextPositionsUpdated = TRUE,
                   !._validNextPositions = computeValidNextPositions(g)]

\* the body of movePawn with the pawn put on the cell before the test: a
\* rejected move leaves the pawn there
movePawnFrom_movesBeforeTest(g1, row, col, needCheck) ==
    LET i == pawnIndexOfTurn(g1)
        g2 == [g1 EXCEPT !.board.pawns[i].position = PawnPosition(row, col)]
    IN IF needCheck /\ g1._validNextPositions[row][col] # TRUE
       THEN [game |-> g2, result |-> "false"]
       ELSE LET g3 == IF g2.board.pawns[i].goalRow = g2.board.pawns[i].position.row
                      THEN [g2 EXCEPT !.winner = <<i>>]
                      ELSE g2
            IN [game |-> setTurn(g3, g1._turn + 1), result |-> "true"]

\* the body of movePawn; g1 is the game after the read of validNextPositions
\* that the needCheck test makes (g itself when needCheck is false)
movePawnFrom(g1, row, col, needCheck) ==
    IF needCheck /\ g1._validNextPositions[row][col] # TRUE
    THEN [game |-> g1, result |-> "false"]
    ELSE LET i == pawnIndexOfTurn(g1)
             g2 == [g1 EXCEPT !.board.pawns[i].position = PawnPosition(row, col)]
             g3 == IF g2.board.pawns[i].goalRow = g2.board.pawns[i].position.row
                   THEN [g2 EXCEPT !.winner = <<i>>]
                   ELSE g2
         IN [game |-> setTurn(g3, g1._turn + 1), result |-> "true"]

\* movePawn with the winner test made after the turn has advanced, where
\* pawnOfTurn already denotes the other pawn
movePawn_winnerAfterTurn(g, row, col, needCheck) ==
    IF needCheck /\ validNextPositions(g)._validNextPositions[row][col] # TRUE
    THEN [game |-> validNextPositions(g), result |-> "false"]
    ELSE LET i == pawnIndexOfTurn(g)
             k == pawnIndexOfNotTurn(g)
             g2 == [g EXCEPT !.board.pawns[i].position = PawnPosition(row, col)]
             g3 == IF g2.board.pawns[k].goalRow = g2.board.pawns[k].position.row
                   THEN [g2 EXCEPT !.winner = <<k>>]
                   ELSE g2
         IN [game |-> setTurn(g3, g._turn + 1), result |-> "true"]

movePawn(g, row, col, needCheck) ==
    movePawnFrom(IF needCheck THEN validNextPositions(g) ELSE g, row, col, needCheck)

(***************************************************************************)
(* Two-point connectivity precheck of a candidate wall.                    *)
(***************************************************************************)
testIfAdjecentToOtherWallForHorizontalWallLeft(g, row, col) ==
    col >= 1
    /\ (\/ g.board.walls.vertical[row][col - 1]
        \/ (row >= 1 /\ g.board.walls.vertical[row - 1][col - 1])
        \/ (row <= 6 /\ g.board.walls.vertical[row + 1][col - 1])
        \/ (col >= 2 /\ g.board.walls.horizontal[row][col - 2]))

testIfAdjecentToOtherWallForHorizontalWallRight(g, row, col) ==
    col <= 6
    /\ (\/ g.board.walls.vertical[row][col + 1]
        \/ (row >= 1 /\ g.board.walls.vertical[row - 1][col + 1])
        \/ (row <= 6 /\ g.board.walls.vertical[row + 1][col + 1])
        \/ (col <= 5 /\ g.board.walls.horizontal[row][col + 2]))

\* testIfAdjecentToOtherWallForHorizontalWallMiddle without the vertical wall
\* that ends on the middle from below
testIfAdjecentToOtherWallForHorizontalWallMiddle_aboveOnly(g, row, col) ==
    row >= 1 /\ g.board.walls.vertical[row - 1][col]

testIfAdjecentToOtherWallForHorizontalWallMiddle(g, row, col) ==
    \/ (row >= 1 /\ g.board.walls.vertical[row - 1][col])
    \/ (row <= 6 /\ g.board.walls.vertical[row + 1][col])

testIfConnectedOnTwoPointsForHorizontalWall(g, row, col) ==
    LET left == (col = 0 \/ testIfAdjecentToOtherWallForHorizontalWallLeft(g, row, col))
        right == (col = 7 \/ testIfAdjecentToOtherWallForHorizontalWallRight(g, row, col))
        middle == testIfAdjecentToOtherWallForHorizontalWallMiddle(g, row, col)
    IN (left /\ right) \/ (right /\ middle) \/ (middle /\ left)

testIfAdjecentToOtherWallForVerticalWallTop(g, row, col) ==
    row >= 1
    /\ (\/ g.board.walls.horizontal[row - 1][col]
        \/ (col >= 1 /\ g.board.walls.horizontal[row - 1][col - 1])
        \/ (col <= 6 /\ g.board.walls.horizontal[row - 1][col + 1])
        \/ (row >= 2 /\ g.board.walls.vertical[row - 2][col]))

testIfAdjecentToOtherWallForVerticalWallBottom(g, row, col) ==
    row <= 6
    /\ (\/ g.board.walls.horizontal[row + 1][col]
        \/ (col >= 1 /\ g.board.walls.horizontal[row + 1][col - 1])
        \/ (col <= 6 /\ g.board.walls.horizontal[row + 1][col + 1])
        \/ (row <= 5 /\ g.board.walls.vertical[row + 2][col]))

testIfAdjecentToOtherWallForVerticalWallMiddle(g, row, col) ==
    \/ (col >= 1 /\ g.board.walls.horizontal[row][col - 1])
    \/ (col <= 6 /\ g.board.walls.horizontal[row][col + 1])

testIfConnectedOnTwoPointsForVerticalWall(g, row, col) ==
    LET top == (row = 0 \/ testIfAdjecentToOtherWallForVerticalWallTop(g, row, col))
        bottom == (row = 7 \/ testIfAdjecentToOtherWallForVerticalWallBottom(g, row, col))
        middle == testIfAdjecentToOtherWallForVerticalWallMiddle(g, row, col)
    IN (top /\ bottom) \/ (bottom /\ middle) \/ (middle /\ top)

(***************************************************************************)
(* Path traversal: _existPathToGoalLineFor.  The closure depthFirstSearch  *)
(* marks in visited each cell it enters over an open way from its current  *)
(* cell, returns true as soon as a marked cell lies on goalRow, and        *)
(* returns false when every cell that can be entered has been marked.  The *)
(* start cell is not marked before the search and is not tested unless it  *)
(* is entered again.  Its return value is therefore: some cell of goalRow  *)
(* can be entered from the start cell by one or more open ways.  The cells *)
(* are collected here in rounds (all cells entered from the cells of the   *)
(* round before) instead of depth first, which marks the same cells.       *)
(***************************************************************************)
pawnMoveTuples == <<MOVE_UP, MOVE_LEFT, MOVE_RIGHT, MOVE_DOWN>>

\* the cells entered from <<currentRow, currentCol>> in one for loop
openNeighbours(g, currentRow, currentCol) ==
    {<<currentRow + pawnMoveTuples[k][1], currentCol + pawnMoveTuples[k][2]>> :
        k \in {n \in DOMAIN pawnMoveTuples :
                  isOpenWay(g, currentRow, currentCol, pawnMoveTuples[n])}}

RECURSIVE depthFirstSearch(_, _, _, _)
depthFirstSearch(g, frontier, goalRow, visited) ==
    LET entered == UNION {openNeighbours(g, p[1], p[2]) : p \in frontier} \ visited
    IN IF \E p \in entered : p[1] = goalRow
       THEN TRUE
       ELSE IF entered = {}
       THEN FALSE
       ELSE depthFirstSearch(g, entered, goalRow, visited \cup entered)

existPathToGoalLineFor(g, pawn) ==
    depthFirstSearch(g, {<<pawn.position.row, pawn.position.col>>}, pawn.goalRow, {})

existPathsToGoalLines(g) ==
    existPathToGoalLineFor(g, pawnOfTurn(g)) /\ existPathToGoalLineFor(g, pawnOfNotTurn(g))

(***************************************************************************)
(* The connectivity test of a candidate wall.  The test writes openWays:   *)
(* it closes the two edges, runs the traversal and then sets both edges to *)
(* true.  The result is the game after the call and the value returned.    *)
(***************************************************************************)
testIfExistPathsToGoalLinesAfterPlaceHorizontalWall(g, row, col) ==
    IF ~testIfConnectedOnTwoPointsForHorizontalWall(g, row, col)
    THEN [game |-> g, result |-> TRUE]
    ELSE [game |-> [g EXCEPT !.openWays.upDown[row][col] = TRUE,
                             !.openWays.upDown[row][col + 1] = TRUE],
          result |-> existPathsToGoalLines(
                         [g EXCEPT !.openWays.upDown[row][col] = FALSE,
                                   !.openWays.upDown[row][col + 1] = FALSE])]

testIfExistPathsToGoalLinesAfterPlaceVerticalWall(g, row, col) ==
    IF ~testIfConnectedOnTwoPointsForVerticalWall(g, row, col)
    THEN [game |-> g, result |-> TRUE]
    ELSE [game |-> [g EXCEPT !.openWays.leftRight[row][col] = TRUE,
                             !.openWays.leftRight[row + 1][col] = TRUE],
          result |-> existPathsToGoalLines(
                         [g EXCEPT !.openWays.leftRight[row][col] = FALSE,
                                   !.openWays.leftRight[row + 1][col] = FALSE])]

(***************************************************************************)
(* Wall placement.                                                         *)
(***************************************************************************)
\* sets to value the cells of a 2D array that are listed in cells
SetCells(arr2D, cells, value) ==
    [i \in DOMAIN arr2D |->
        [j \in DOMAIN arr2D[i] |-> IF <<i, j>> \in cells THEN value ELSE arr2D[i][j]]]

\* the candidates started afresh at each horizontal wall
adjustProbableValidNextWallForAfterPlaceHorizontalWall_afresh(g, row, col) ==
    [g EXCEPT !._probableNextWalls =
        [horizontal |-> create2DArrayInitializedTo(WallGridSize, WallGridSize, FALSE),
         vertical |-> SetCells(create2DArrayInitializedTo(WallGridSize, WallGridSize, FALSE),
                               {<<row, IF col >= 1 THEN col - 1 ELSE col + 1>>}, TRUE)]]

adjustProbableValidNextWallForAfterPlaceHorizontalWall(g, row, col) ==
    LET vert == (IF row >= 1 THEN {<<row - 1, col>>} ELSE {})
                \cup (IF row <= 6 THEN {<<row + 1, col>>} ELSE {})
                \cup (IF col >= 1 THEN {<<row, col - 1>>} ELSE {})
                \cup (IF col >= 1 /\ row >= 1 THEN {<<row - 1, col - 1>>} ELSE {})
                \cup (IF col >= 1 /\ row <= 6 THEN {<<row + 1, col - 1>>} ELSE {})
                \cup (IF col >= 2 THEN {<<row, col - 2>>} ELSE {})
                \cup (IF col <= 6 THEN {<<row, col + 1>>} ELSE {})
                \cup (IF col <= 6 /\ row >= 1 THEN {<<row - 1, col + 1>>} ELSE {})
                \cup (IF col <= 6 /\ row <= 6 THEN {<<row + 1, col + 1>>} ELSE {})
                \cup (IF col <= 5 THEN {<<row, col + 2>>} ELSE {})
        horiz == (IF col >= 2 THEN {<<row, col - 2>>} ELSE {})
                 \cup (IF col >= 3 THEN {<<row, col - 3>>} ELSE {})
                 \cup (IF col <= 5 THEN {<<row, col + 2>>} ELSE {})
                 \cup (IF col <= 4 THEN {<<row, col + 3>>} ELSE {})
    IN [g EXCEPT !._probableNextWalls.vertical = SetCells(@, vert, TRUE),
                 !._probableNextWalls.horizontal = SetCells(@, horiz, TRUE)]

adjustProbableValidNextWallForAfterPlaceVerticalWall(g, row, col) ==
    LET horiz == (IF col >= 1 THEN {<<row, col - 1>>} ELSE {})
                 \cup (IF col <= 6 THEN {<<row, col + 1>>} ELSE {})
                 \cup (IF row >= 1 THEN {<<row - 1, col>>} ELSE {})
                 \cup (IF row >= 1 /\ col >= 1 THEN {<<row - 1, col - 1>>} ELSE {})
                 \cup (IF row >= 1 /\ col <= 6 THEN {<<row - 1, col + 1>>} ELSE {})
                 \cup (IF row >= 2 THEN {<<row - 2, col>>} ELSE {})
                 \cup (IF row <= 6 THEN {<<row + 1, col>>} ELSE {})
                 \cup (IF row <= 6 /\ col >= 1 THEN {<<row + 1, col - 1>>} ELSE {})
                 \cup (IF row <= 6 /\ col <= 6 THEN {<<row + 1, col + 1>>} ELSE {})
                 \cup (IF row <= 5 THEN {<<row + 2, col>>} ELSE {})
        vert == (IF row >= 2 THEN {<<row - 2, col>>} ELSE {})
                \cup (IF row >= 3 THEN {<<row - 3, col>>} ELSE {})
                \cup (IF row <= 5 THEN {<<row + 2, col>>} ELSE {})
                \cup (IF row <= 4 THEN {<<row + 3, col>>} ELSE {})
    IN [g EXCEPT !._probableNextWalls.horizontal = SetCells(@, horiz, TRUE),
                 !._probableNextWalls.vertical = SetCells(@, vert, TRUE)]

\* the body of placeHorizontalWall with the wall count taken after the turn
\* has advanced, where pawnOfTurn already denotes the other pawn
placeHorizontalWallFrom_countAfterTurn(test, row, col, needCheck) ==
    IF needCheck /\ ~test.result
    THEN [game |-> test.game, result |-> "false"]
    ELSE LET k == pawnIndexOfNotTurn(test.game)
             invalid == {<<row, col>>}
                        \cup (IF col > 0 THEN {<<row, col - 1>>} ELSE {})
                        \cup (IF col < 7 THEN {<<row, col + 1>>} ELSE {})
             g1 == [test.game EXCEPT
                       !.openWays.upDown[row][col] = FALSE,
                       !.openWays.upDown[row][col + 1] = FALSE,
                       !.validNextWalls.vertical[row][col] = FALSE,
                       !.validNextWalls.horizontal = SetCells(@, invalid, FALSE),
                       !.board.walls.horizontal[row][col] = TRUE,
                       !.board.pawns[k].numberOfLeftWalls = @ - 1]
         IN [game |-> setTurn(adjustProbableValidNextWallForAfterPlaceHorizontalWall(g1, row, col),
                              test.game._turn + 1),
             result |-> "true"]

\* the body of placeHorizontalWall; test is the outcome of the connectivity
\* test that needCheck asks for (the game after it, and its value)
placeHorizontalWallFrom(test, row, col, needCheck) ==
    IF needCheck /\ ~test.result
    THEN [game |-> test.game, result |-> "false"]
    ELSE LET i == pawnIndexOfTurn(test.game)
             invalid == {<<row, col>>}
                        \cup (IF col > 0 THEN {<<row, col - 1>>} ELSE {})
                        \cup (IF col < 7 THEN {<<row, col + 1>>} ELSE {})
             g1 == [test.game EXCEPT
                       !.openWays.upDown[row][col] = FALSE,
                       !.openWays.upDown[row][col + 1] = FALSE,
                       !.validNextWalls.vertical[row][col] = FALSE,
                       !.validNextWalls.horizontal = SetCells(@, invalid, FALSE),
                       !.board.walls.horizontal[row][col] = TRUE,
                       !.board.pawns[i].numberOfLeftWalls = @ - 1]
         IN [game |-> setTurn(adjustProbableValidNextWallForAfterPlaceHorizontalWall(g1, row, col),
                              test.game._turn + 1),
             result |-> "true"]

placeHorizontalWall(g, row, col, needCheck) ==
    placeHorizontalWallFrom(
        IF needCheck
        THEN testIfExistPathsToGoalLinesAfterPlaceHorizontalWall(g, row, col)
        ELSE [game |-> g, result |-> TRUE],
        row, col, needCheck)

placeVerticalWallFrom(test, row, col, needCheck) ==
    IF needCheck /\ ~test.result
    THEN [game |-> test.game, result |-> "false"]
    ELSE LET i == pawnIndexOfTurn(test.game)
             invalid == {<<row, col>>}
                        \cup (IF row > 0 THEN {<<row - 1, col>>} ELSE {})
                        \cup (IF row < 7 THEN {<<row + 1, col>>} ELSE {})
             g1 == [test.game EXCEPT
                       !.openWays.leftRight[row][col] = FALSE,
                       !.openWays.leftRight[row + 1][col] = FALSE,
                       !.validNextWalls.horizontal[row][col] = FALSE,
                       !.validNextWalls.vertical = SetCells(@, invalid, FALSE),
                       !.board.walls.vertical[row][col] = TRUE,
                       !.board.pawns[i].numberOfLeftWalls = @ - 1]
         IN [game |-> setTurn(adjustProbableValidNextWallForAfterPlaceVerticalWall(g1, row, col),
                              test.game._turn + 1),
             result |-> "true"]

placeVerticalWall(g, row, col, needCheck) ==
    placeVerticalWallFrom(
        IF needCheck
        THEN testIfExistPathsToGoalLinesAfterPlaceVerticalWall(g, row, col)
        ELSE [game |-> g, result |-> TRUE],
        row, col, needCheck)

(***************************************************************************)
(* doMove.  A move is the 3-element array <<movePawnTo, placeHorizontal-   *)
(* WallAt, placeVerticalWallAt>>; a slot is Null or a pair <<row, col>>.   *)
(* The result is "true", "false", or "undefined" when no slot is set.      *)
(***************************************************************************)
doMove(g, move, needCheck) ==
    LET movePawnTo == move[1]
        placeHorizontalWallAt == move[2]
        placeVerticalWallAt == move[3]
    IN IF movePawnTo # Null
       THEN movePawn(g, movePawnTo[1], movePawnTo[2], needCheck)
       ELSE IF placeHorizontalWallAt # Null
       THEN placeHorizontalWall(g, placeHorizontalWallAt[1], placeHorizontalWallAt[2], needCheck)
       ELSE IF placeVerticalWallAt # Null
       THEN placeVerticalWall(g, placeVerticalWallAt[1], placeVerticalWallAt[2], needCheck)
       ELSE [game |-> g, result |-> "undefined"]

(***************************************************************************)
(* updateValidNextWalls: recomputes validNextWalls from the board.  Each   *)
(* candidate is placed provisionally, tested and taken back with the saved *)
(* edge values, so board.walls and openWays are as before afterwards.      *)
(***************************************************************************)
\* a horizontal candidate counts as valid when it overlaps no wall
horizontalWallIsValid_overlapOnly(g, i, j) ==
    ~(\/ g.board.walls.horizontal[i][j]
      \/ g.board.walls.vertical[i][j]
      \/ (j > 0 /\ g.board.walls.horizontal[i][j - 1])
      \/ (j < 7 /\ g.board.walls.horizontal[i][j + 1]))

horizontalWallIsValid(g, i, j) ==
    IF \/ g.board.walls.horizontal[i][j]
       \/ g.board.walls.vertical[i][j]
       \/ (j > 0 /\ g.board.walls.horizontal[i][j - 1])
       \/ (j < 7 /\ g.board.walls.horizontal[i][j + 1])
    THEN FALSE
    ELSE existPathsToGoalLines([g EXCEPT !.board.walls.horizontal[i][j] = TRUE,
                                         !.openWays.upDown[i][j] = FALSE,
                                         !.openWays.upDown[i][j + 1] = FALSE])

verticalWallIsValid(g, i, j) ==
    IF \/ g.board.walls.vertical[i][j]
       \/ g.board.walls.horizontal[i][j]
       \/ (i > 0 /\ g.board.walls.vertical[i - 1][j])
       \/ (i < 7 /\ g.board.walls.vertical[i + 1][j])
    THEN FALSE
    ELSE existPathsToGoalLines([g EXCEPT !.board.walls.vertical[i][j] = TRUE,
                                         !.openWays.leftRight[i][j] = FALSE,
                                         !.openWays.leftRight[i + 1][j] = FALSE])

updateValidNextWalls(g) ==
    [g EXCEPT !.validNextWalls =
        [horizontal |-> [i \in WallIdx |-> [j \in WallIdx |-> horizontalWallIsValid(g, i, j)]],
         vertical |-> [i \in WallIdx |-> [j \in WallIdx |-> verticalWallIsValid(g, i, j)]]]]

(***************************************************************************)
(* The Game constructor.                                                   *)
(***************************************************************************)
Game(isHumanPlayerFirst) ==
    updateValidNextWalls(
        [board |-> Board(isHumanPlayerFirst),
         winner |-> Null,
         _turn |-> 0,
         validNextWalls |->
             [horizontal |-> create2DArrayInitializedTo(WallGridSize, WallGridSize, TRUE),
              vertical |-> create2DArrayInitializedTo(WallGridSize, WallGridSize, TRUE)],
         _probableNextWalls |->
             [horizontal |-> create2DArrayInitializedTo(WallGridSize, WallGridSize, FALSE),
              vertical |-> create2DArrayInitializedTo(WallGridSize, WallGridSize, FALSE)],
         _probableValidNextWalls |-> Null,
         _probableValidNextWallsUpdated |-> FALSE,
         openWays |->
             [upDown |-> create2DArrayInitializedTo(WallGridSize, BoardSize, TRUE),
              leftRight |-> create2DArrayInitializedTo(BoardSize, WallGridSize, TRUE)],
         _validNextPositions |-> create2DArrayInitializedTo(BoardSize, BoardSize, FALSE),
         _validNextPositionsUpdated |-> FALSE])

(***************************************************************************)
(* The Controller.  A controller state cs is [game |-> controller.game,    *)
(* ctl |-> the other fields of the controller and what surrounds it]:      *)
(*   gameHistory, gameHistoryTrashCan  sequences of games (each a clone)   *)
(*   worker      Null or <<id>>, the Worker held in controller.worker      *)
(*   workers     every Worker created so far, by id                        *)
(*   mctsMode    the flag of mctsBtn.onclick                               *)
(*   hooked      doMove, undo, redo, startNewGame are wrapped as window.   *)
(*               onload wraps them                                         *)
(*   workerCandidates, progress  what the info box and the bar show        *)
(*   search      Null or <<s>>: the state handed to ai.chooseNextMove by   *)
(*               aiDo while that synchronous call runs                     *)
(* A Worker is [terminated, handlers (onmessage and onerror are set),      *)
(* queue (messages posted by the worker and not yet dispatched), errors    *)
(* (error events raised and not yet dispatched), job (Null or <<the game   *)
(* received>>), finished].                                                 *)
(***************************************************************************)
\* Game.clone: a new object holding field for field the values of g
Clone(g) == g

Worker(handlers) ==
    [terminated |-> FALSE, handlers |-> handlers, queue |-> <<>>, errors |-> 0,
     job |-> Null, finished |-> FALSE]

Controller(aiDevelopMode, hooked) ==
    [aiDevelopMode |-> aiDevelopMode,
     hooked |-> hooked,
     gameHistory |-> <<>>,
     gameHistoryTrashCan |-> <<>>,
     worker |-> Null,
     workers |-> <<>>,
     mctsMode |-> FALSE,
     workerCandidates |-> <<>>,
     progress |-> 0,
     search |-> Null,
     gameIsEntry |-> Null]   \* Null, or <<k>>: gameHistory[k] is the object this.game is

\* Worker.terminate with the messages of the worker not yet dispatched kept
\* in the queue
terminate_keepsQueue(c, id) ==
    [c EXCEPT !.workers[id].terminated = TRUE]

\* Worker.terminate(): the worker stops, and the messages it posted that are
\* not yet dispatched are discarded; an error event already queued for the
\* Worker object is not
terminate(c, id) ==
    [c EXCEPT !.workers[id].terminated = TRUE, !.workers[id].queue = <<>>]

\* if (this.worker !== null) this.worker.terminate()
terminateIfAny(c) == IF c.worker # Null THEN terminate(c, c.worker[1]) ELSE c

\* this.worker = new Worker('worker.js')
newWorker(c, handlers) ==
    [c EXCEPT !.workers = Append(@, Worker(handlers)),
              !.worker = <<Len(c.workers) + 1>>]

\* setNewWorker with the previous worker left running
setNewWorker_withoutTerminate(c) == newWorker(c, FALSE)

setNewWorker(c) == newWorker(terminateIfAny(c), FALSE)

\* aiDo with the game itself handed to the search
aiDo_withoutClone(cs) ==
    [cs EXCEPT !.ctl.search = <<[shared |-> TRUE, game |-> cs.game]>>]

\* aiDo up to the call of ai.chooseNextMove(Game.clone(this.game)); the call
\* returns in the step AiReturns
aiDo(cs) ==
    [cs EXCEPT !.ctl.search = <<[shared |-> FALSE, game |-> Clone(cs.game)]>>]

\* the writes to the object this.game that leave the game g: an entry of
\* gameHistory that is the same object holds them too
writtenGame(cs, g) ==
    IF cs.ctl.gameIsEntry # Null /\ cs.ctl.gameIsEntry[1] <= Len(cs.ctl.gameHistory)
    THEN [cs EXCEPT !.game = g, !.ctl.gameHistory[cs.ctl.gameIsEntry[1]] = g]
    ELSE [cs EXCEPT !.game = g]

\* View.render: renderCanvasBoard reads the validNextPositions getter of the
\* game of the view, the object this.game, to highlight the destinations
render(g) == validNextPositions(g)

\* this.view.render()
rendered(cs) == writtenGame(cs, render(cs.game))

\* Controller.doMove after result = this.game.doMove(move, true) and
\* this.game.updateValidNextWalls(); cs holds the game after both
\* this.gameHistory.push(this.game) in place of the push of a clone
pushed_withoutClone(cs) ==
    [game |-> cs.game,
     ctl |-> [cs.ctl EXCEPT !.gameHistory = Append(cs.ctl.gameHistory, cs.game),
                            !.gameHistoryTrashCan = <<>>,
                            !.gameIsEntry = <<Len(cs.ctl.gameHistory) + 1>>]]

\* the push of the clone with the trash can left as it is
pushed_keepsTrashCan(cs) ==
    [game |-> cs.game,
     ctl |-> [cs.ctl EXCEPT !.gameHistory = Append(cs.ctl.gameHistory, Clone(cs.game))]]

\* this.gameHistory.push(Game.clone(this.game)); this.gameHistoryTrashCan = []
pushed(cs) ==
    [game |-> cs.game,
     ctl |-> [cs.ctl EXCEPT !.gameHistory = Append(cs.ctl.gameHistory, Clone(cs.game)),
                            !.gameHistoryTrashCan = <<>>]]

Controller_doMoveAfter(cs, result) ==
    IF result = "true"
    THEN IF ~pawnOfTurn(cs.game).isHumanPlayer
         THEN aiDo(rendered(pushed(cs)))
         ELSE rendered(pushed(cs))
    ELSE cs

\* r is the outcome of this.game.doMove(move, true)
Controller_doMoveFrom(cs, r) ==
    Controller_doMoveAfter(writtenGame(cs, updateValidNextWalls(r.game)), r.result)

Controller_doMove(cs, move) == Controller_doMoveFrom(cs, doMove(cs.game, move, TRUE))

\* startNewGame from new Game(isHumanPlayerFirst) on; c is the controller
\* after setNewWorker, g the new game
Controller_startNewGameWith(c, g, isHumanPlayerFirst) ==
    IF ~c.aiDevelopMode /\ ~isHumanPlayerFirst
    THEN aiDo([game |-> render(g),
               ctl |-> [c EXCEPT !.gameHistory = <<Clone(g)>>, !.gameHistoryTrashCan = <<>>,
                                 !.gameIsEntry = Null]])
    ELSE [game |-> render(g),
          ctl |-> [c EXCEPT !.gameHistory = <<Clone(g)>>, !.gameHistoryTrashCan = <<>>,
                            !.gameIsEntry = Null]]

\* the game of startNewGame: in aiDevelopMode both pawns are human players
allHuman(g) ==
    [g EXCEPT !.board.pawns = (0 :> [g.board.pawns[0] EXCEPT !.isHumanPlayer = TRUE])
                              @@ (1 :> [g.board.pawns[1] EXCEPT !.isHumanPlayer = TRUE])]

\* new Game(true) and new Game(false)
GameHumanFirst == Game(TRUE)
GameHumanSecond == Game(FALSE)

NewGameFor(aiDevelopMode, isHumanPlayerFirst) ==
    IF aiDevelopMode
    THEN allHuman(IF isHumanPlayerFirst THEN GameHumanFirst ELSE GameHumanSecond)
    ELSE IF isHumanPlayerFirst THEN GameHumanFirst ELSE GameHumanSecond

Controller_startNewGame(cs, isHumanPlayerFirst) ==
    Controller_startNewGameWith(setNewWorker(cs.ctl),
                                NewGameFor(cs.ctl.aiDevelopMode, isHumanPlayerFirst),
                                isHumanPlayerFirst)

\* undo after setNewWorker and adjustProgressBar(0)
Controller_undoFrom(cs) ==
    IF Len(cs.ctl.gameHistory) <= 1
    THEN cs
    ELSE [game |-> render(Clone(cs.ctl.gameHistory[Len(cs.ctl.gameHistory) - 1])),
          ctl |-> [cs.ctl EXCEPT
                      !.gameHistoryTrashCan = Append(@, cs.ctl.gameHistory[Len(cs.ctl.gameHistory)]),
                      !.gameHistory = SubSeq(@, 1, Len(@) - 1),
                      !.gameIsEntry = Null]]

Controller_undo(cs) ==
    Controller_undoFrom([cs EXCEPT !.ctl = [setNewWorker(cs.ctl) EXCEPT !.progress = 0]])

Controller_redo(cs) ==
    IF Len(cs.ctl.gameHistoryTrashCan) = 0
    THEN cs
    ELSE [game |-> render(cs.ctl.gameHistoryTrashCan[Len(cs.ctl.gameHistoryTrashCan)]),
          ctl |-> [cs.ctl EXCEPT
                      !.gameHistoryTrashCan = SubSeq(@, 1, Len(@) - 1),
                      !.gameHistory =
                          Append(@, Clone(cs.ctl.gameHistoryTrashCan[Len(cs.ctl.gameHistoryTrashCan)])),
                      !.gameIsEntry = Null]]

\* the new worker of showMCTSCandidates is given its handlers and the job
\* {game: Game.clone(this.game), ...}; window.workerCandidates = []
PostJob(c, g) ==
    [c EXCEPT !.workers[c.worker[1]].job = <<Clone(g)>>,
              !.workerCandidates = <<>>]

Controller_showMCTSCandidates(cs) ==
    [cs EXCEPT !.ctl = PostJob(newWorker(terminateIfAny([cs.ctl EXCEPT !.progress = 0]), TRUE),
                               cs.game)]

\* if (controller.worker) { controller.worker.terminate(); controller.worker = null; }
stopWorker(c) ==
    IF c.worker # Null THEN [terminate(c, c.worker[1]) EXCEPT !.worker = Null] ELSE c

\* mctsBtn.onclick
mctsBtnOnclick(cs) ==
    IF ~cs.ctl.mctsMode
    THEN Controller_showMCTSCandidates([cs EXCEPT !.ctl.mctsMode = TRUE])
    ELSE [cs EXCEPT !.ctl = stopWorker([cs.ctl EXCEPT !.mctsMode = FALSE])]

restartMCTSIfNeeded(cs) ==
    IF cs.ctl.mctsMode
    THEN Controller_showMCTSCandidates([cs EXCEPT !.ctl = stopWorker(cs.ctl)])
    ELSE cs

\* the methods of the controller left as they are, without the restart
Hooked_withoutRestart(cs) == cs

\* the methods as window.onload wraps them
Hooked(cs) == IF cs.ctl.hooked THEN restartMCTSIfNeeded(cs) ELSE cs

\* this.worker.terminate(); this.worker = null  in a handler: with no worker
\* held the first statement throws and the handler ends there
handlerTeardown(c) == stopWorker(c)

\* worker.onmessage of showMCTSCandidates for a message of kind msg posted
\* by worker id
onmessage(cs, id, msg) ==
    IF msg = "progress"
    THEN [cs EXCEPT !.ctl.progress = 50]
    ELSE IF msg = "candidates"
    THEN [cs EXCEPT !.ctl.workerCandidates = <<id>>]
    ELSE [cs EXCEPT !.ctl = handlerTeardown([cs.ctl EXCEPT !.progress = 100])]

\* worker.onerror with the worker kept
onerror_keepsWorker(cs, id) == [cs EXCEPT !.ctl.progress = 0]

\* worker.onerror of showMCTSCandidates
onerror(cs, id) ==
    [cs EXCEPT !.ctl = handlerTeardown([cs.ctl EXCEPT !.progress = 0])]

(***************************************************************************)
(* The state machine: a game object driven by doMove(move, true) calls.    *)
(***************************************************************************)
VARIABLES
    game,           \* the Game object
    wallsPlacedBy,  \* history: per pawn index, the wall cells its placements set
    last,           \* history: the last doMove call, its result, the game before it
    nMoves,         \* number of doMove calls made after the opening
    ctl,            \* the controller around the game (constructed and unused here)
    evt,            \* history: the last controller event and the state before it
    copy,           \* Null, or <<c>>: a clone of the game kept beside it
    workerScope     \* the global scope of a worker.js thread and its last event

vars == <<game, wallsPlacedBy, last, nMoves, ctl, evt, copy, workerScope>>

\* the parts of a controller state that an event is compared with afterwards
Snapshot(cs) ==
    [game |-> cs.game, gameHistory |-> cs.ctl.gameHistory,
     gameHistoryTrashCan |-> cs.ctl.gameHistoryTrashCan, worker |-> cs.ctl.worker,
     workers |-> cs.ctl.workers, workerCandidates |-> cs.ctl.workerCandidates,
     search |-> cs.ctl.search]

NoEvent(cs) ==
    [kind |-> "none", from |-> 0, stale |-> FALSE, result |-> "none",
     move |-> <<Null, Null, Null>>, before |-> Snapshot(cs)]

PawnMove(row, col) == <<<<row, col>>, Null, Null>>
HorizontalWall(row, col) == <<Null, <<row, col>>, Null>>
VerticalWall(row, col) == <<Null, Null, <<row, col>>>>

\* what doMove dispatches a move to
IsPawnMove(move) == move[1] # Null
IsHorizontalWallMove(move) == move[1] = Null /\ move[2] # Null
IsVerticalWallMove(move) == move[1] = Null /\ move[2] = Null /\ move[3] # Null
IsWallMove(move) == IsHorizontalWallMove(move) \/ IsVerticalWallMove(move)
WallCell(move) == IF IsHorizontalWallMove(move) THEN move[2] ELSE move[3]
WallId(move) == IF IsHorizontalWallMove(move)
                THEN <<"horizontal", move[2][1], move[2][2]>>
                ELSE <<"vertical", move[3][1], move[3][2]>>

\* the history after a doMove(move, needCheck) call on the game of st that
\* gave r (the game after the call and the value returned)
Recorded(st, move, needCheck, r) ==
    [game |-> r.game,
     wallsPlacedBy |->
         IF IsWallMove(move) /\ r.result = "true"
         THEN [st.wallsPlacedBy EXCEPT ![pawnIndexOfTurn(st.game)] = @ \cup {WallId(move)}]
         ELSE st.wallsPlacedBy,
     last |-> [move |-> move, needCheck |-> needCheck, result |-> r.result,
               before |-> st.game,
               allTrue |-> st.last.allTrue /\ r.result = "true"]]

\* one doMove(move, needCheck) call on the game of st, with the history kept
Call(st, move, needCheck) == Recorded(st, move, needCheck, doMove(st.game, move, needCheck))

NoCall(g) == [move |-> <<Null, Null, Null>>, needCheck |-> TRUE, result |-> "none",
              before |-> g, allTrue |-> TRUE]

WithNoHistory(g) == [game |-> g, wallsPlacedBy |-> [i \in 0..1 |-> {}], last |-> NoCall(g)]

Constructed(isHumanPlayerFirst) == WithNoHistory(Game(isHumanPlayerFirst))

RECURSIVE Replay(_, _)

\* next is the outcome of the first move of moves
ReplayRest(next, moves) ==
    IF next.last.result = "true" THEN Replay(next, Tail(moves)) ELSE next

Replay(st, moves) ==
    IF moves = <<>> THEN st ELSE ReplayRest(Call(st, Head(moves), TRUE), moves)

(***************************************************************************)
(* Openings: move sequences played with doMove(move, true) on a freshly    *)
(* constructed game.  Every move of an opening is a legal move of the game *)
(* (no overlapping wall, every call returns true).  The model explores the *)
(* doMove calls that follow each opening.                                  *)
(***************************************************************************)
\* two vertical walls beside the pawn on its start cell
OpeningCorridor == <<VerticalWall(7, 3), VerticalWall(7, 4)>>

\* both pawns advance on column 4 until they are adjacent
OpeningMeeting ==
    <<PawnMove(7, 4), PawnMove(1, 4), PawnMove(6, 4), PawnMove(2, 4),
      PawnMove(5, 4), PawnMove(3, 4), PawnMove(4, 4)>>

\* both pawns walk to one step from their goal rows
OpeningEndgame ==
    <<PawnMove(7, 4), PawnMove(0, 5), PawnMove(6, 4), PawnMove(1, 5),
      PawnMove(5, 4), PawnMove(2, 5), PawnMove(4, 4), PawnMove(3, 5),
      PawnMove(3, 4), PawnMove(4, 5), PawnMove(2, 4), PawnMove(5, 5),
      PawnMove(1, 4), PawnMove(6, 5), PawnMove(1, 3), PawnMove(7, 5)>>

\* pawn 0 spends its ten walls while pawn 1 steps left and right
OpeningTenWalls ==
    <<HorizontalWall(1, 0), PawnMove(8, 5), HorizontalWall(1, 2), PawnMove(8, 4),
      HorizontalWall(1, 4), PawnMove(8, 5), HorizontalWall(1, 6), PawnMove(8, 4),
      HorizontalWall(3, 1), PawnMove(8, 5), HorizontalWall(3, 5), PawnMove(8, 4),
      HorizontalWall(3, 7), PawnMove(8, 5), HorizontalWall(5, 0), PawnMove(8, 4),
      HorizontalWall(5, 2), PawnMove(8, 5), HorizontalWall(5, 6), PawnMove(8, 4)>>

\* the pawns meet, then walls close the cell behind pawn 1 and the cell on its
\* left; pawn 0 is to move
OpeningJumpOneSide ==
    OpeningMeeting \o <<HorizontalWall(2, 4), VerticalWall(3, 3), HorizontalWall(7, 0)>>

\* the pawns meet, then walls close the cell behind pawn 1 and the cells on
\* both its sides; pawn 0 is to move
OpeningJumpDeadEnd ==
    OpeningMeeting \o <<HorizontalWall(2, 4), VerticalWall(3, 3), VerticalWall(3, 4)>>

\* pawn 0, at (7,3), has the cells (7,3), (8,3), (7,4), (8,4) and one way out
\* of them, up from (7,4); the edge above it is closed by the wall (6,2)
OpeningBelowWall ==
    <<PawnMove(8, 3), VerticalWall(7, 2), PawnMove(7, 3), VerticalWall(7, 4),
      HorizontalWall(6, 2), PawnMove(1, 4)>>

\* the pawns meet, then walls close the cell behind pawn 1 and both its sides,
\* and the left side of pawn 0; pawn 0, at (4,4), is to move, and the wall
\* (4,3) below it leaves pawn 1 with one open neighbouring cell, that of
\* pawn 0, from which the only other way leads right
OpeningBoxedIn ==
    OpeningMeeting \o <<HorizontalWall(2, 3), VerticalWall(3, 3), VerticalWall(2, 4)>>

Openings ==
    {[isHumanPlayerFirst |-> TRUE, moves |-> <<>>],
     [isHumanPlayerFirst |-> TRUE, moves |-> OpeningJumpOneSide],
     [isHumanPlayerFirst |-> TRUE, moves |-> OpeningJumpDeadEnd],
     [isHumanPlayerFirst |-> FALSE, moves |-> <<>>],
     [isHumanPlayerFirst |-> TRUE, moves |-> OpeningCorridor],
     [isHumanPlayerFirst |-> TRUE, moves |-> OpeningMeeting],
     [isHumanPlayerFirst |-> TRUE, moves |-> OpeningEndgame],
     [isHumanPlayerFirst |-> FALSE, moves |-> OpeningTenWalls],
     [isHumanPlayerFirst |-> TRUE, moves |-> OpeningBelowWall]}

\* the controller of the states in which the game is driven directly
Unused(g) == [game |-> g, ctl |-> Controller(TRUE, FALSE)]

StartsAt(st) ==
    /\ game = st.game
    /\ wallsPlacedBy = st.wallsPlacedBy
    /\ last = NoCall(st.game)
    /\ nMoves = 0
    /\ ctl = Controller(TRUE, FALSE)
    /\ evt = NoEvent(Unused(st.game))
    /\ copy = Null
    /\ workerScope = Null

Init == \E o \in Openings : StartsAt(Replay(Constructed(o.isHumanPlayerFirst), o.moves))

(***************************************************************************)
(* Inputs of doMove.                                                       *)
(***************************************************************************)
Abs(x) == IF x < 0 THEN -x ELSE x

\* pawn targets: the board cells within Reach steps of the pawn of turn
PawnTargets(g) ==
    {t \in Rows \X Rows :
        Abs(t[1] - pawnOfTurn(g).position.row) + Abs(t[2] - pawnOfTurn(g).position.col) <= Reach}

\* wall cells: around the start cell of the pawn at (8,4) and around the
\* cells where the pawns meet
WallCellInputs == {<<7, 3>>, <<7, 4>>, <<6, 2>>, <<6, 3>>, <<2, 4>>, <<4, 4>>, <<3, 3>>}

\* moves with no slot set, and with two slots set
MalformedMoves == {<<Null, Null, Null>>, <<<<7, 4>>, <<7, 3>>, Null>>, <<Null, <<7, 3>>, <<7, 3>>>>}

Becomes(st) ==
    /\ game' = st.game
    /\ wallsPlacedBy' = st.wallsPlacedBy
    /\ last' = st.last
    /\ nMoves' = nMoves + 1
    /\ UNCHANGED <<ctl, evt, copy, workerScope>>

Do(move) ==
    /\ nMoves < MaxMoves
    /\ Becomes(Call([game |-> game, wallsPlacedBy |-> wallsPlacedBy, last |-> last], move, TRUE))

DoMovePawn == \E t \in PawnTargets(game) : Do(PawnMove(t[1], t[2]))
DoMoveHorizontalWall == \E w \in WallCellInputs : Do(HorizontalWall(w[1], w[2]))
DoMoveVerticalWall == \E w \in WallCellInputs : Do(VerticalWall(w[1], w[2]))
DoMoveMalformed == \E m \in MalformedMoves : Do(m)

Next == DoMovePawn \/ DoMoveHorizontalWall \/ DoMoveVerticalWall \/ DoMoveMalformed

Spec == Init /\ [][Next]_vars

(***************************************************************************)
(* Vocabulary of the properties, stated on the fields of a game and not    *)
(* through the methods of the class.                                       *)
(***************************************************************************)
Directions == {MOVE_UP, MOVE_DOWN, MOVE_LEFT, MOVE_RIGHT}

InBoard(cell) == cell[1] \in Rows /\ cell[2] \in Rows

Cell(position) == <<position.row, position.col>>

Plus(cell, d) == <<cell[1] + d[1], cell[2] + d[2]>>

\* the edge of openWays between cell and the cell next to it in direction d is
\* inside the board and open
WayOpen(g, cell, d) ==
    /\ InBoard(cell)
    /\ InBoard(Plus(cell, d))
    /\ IF d[2] = 0
       THEN g.openWays.upDown[IF d[1] = 1 THEN cell[1] ELSE cell[1] - 1][cell[2]]
       ELSE g.openWays.leftRight[cell[1]][IF d[2] = 1 THEN cell[2] ELSE cell[2] - 1]

RECURSIVE ReachableCells(_, _, _)
ReachableCells(g, seen, frontier) ==
    IF frontier = {}
    THEN seen
    ELSE ReachableCells(g, seen \cup frontier,
             {Plus(c, d) : <<c, d>> \in {x \in frontier \X Directions : WayOpen(g, x[1], x[2])}}
             \ (seen \cup frontier))

\* pawn i has a path over open ways from its position to its goal row
HasPathToGoal(g, i) ==
    \E c \in ReachableCells(g, {}, {Cell(g.board.pawns[i].position)}) :
        c[1] = g.board.pawns[i].goalRow

\* the game with the two edges of the wall of a wall move closed
WithEdgesClosed(g, move) ==
    IF IsHorizontalWallMove(move)
    THEN [g EXCEPT !.openWays.upDown[move[2][1]][move[2][2]] = FALSE,
                   !.openWays.upDown[move[2][1]][move[2][2] + 1] = FALSE]
    ELSE [g EXCEPT !.openWays.leftRight[move[3][1]][move[3][2]] = FALSE,
                   !.openWays.leftRight[move[3][1] + 1][move[3][2]] = FALSE]

\* the wall of a wall move would leave a pawn of g without a path
WouldBlock(g, move) == \E i \in 0..1 : ~HasPathToGoal(WithEdgesClosed(g, move), i)

\* the wall of a wall move overlaps a wall on the board of g
Overlaps(g, move) ==
    LET row == WallCell(move)[1]
        col == WallCell(move)[2]
    IN \/ g.board.walls.horizontal[row][col]
       \/ g.board.walls.vertical[row][col]
       \/ /\ IsHorizontalWallMove(move)
          /\ \/ (col > 0 /\ g.board.walls.horizontal[row][col - 1])
             \/ (col < 7 /\ g.board.walls.horizontal[row][col + 1])
       \/ /\ IsVerticalWallMove(move)
          /\ \/ (row > 0 /\ g.board.walls.vertical[row - 1][col])
             \/ (row < 7 /\ g.board.walls.vertical[row + 1][col])

\* the fields of a game that a rejected move must leave as they were
RulesState(g) ==
    [walls |-> g.board.walls,
     openWays |-> g.openWays,
     validNextWalls |-> g.validNextWalls,
     probableNextWalls |-> g._probableNextWalls,
     positions |-> [i \in 0..1 |-> g.board.pawns[i].position],
     numberOfLeftWalls |-> [i \in 0..1 |-> g.board.pawns[i].numberOfLeftWalls],
     turn |-> g._turn,
     winner |-> g.winner]

Called == last.result # "none"
Mover == pawnIndexOfTurn(last.before)

(***************************************************************************)
(* C1.  After doMove(move, true) calls that all returned true, each pawn   *)
(* still has a path over the open ways to its goal row.                    *)
(***************************************************************************)
C1_PathsPreserved ==
    last.allTrue => \A i \in 0..1 : HasPathToGoal(game, i)

(***************************************************************************)
(* C2.  doMove(move, true) with a wall that would leave a pawn without a   *)
(* path returns false and leaves every field of the game as it was.        *)
(***************************************************************************)
C2_BlockingWallRejectedStateUnchanged ==
    (Called /\ IsWallMove(last.move) /\ WouldBlock(last.before, last.move))
        => (last.result = "false" /\ RulesState(game) = RulesState(last.before))

(***************************************************************************)
(* C3.  doMove(move, true) rejects every wall that overlaps an existing    *)
(* wall: it returns false and leaves the state as it was.                  *)
(***************************************************************************)
C3_OverlappingWallRejected ==
    (Called /\ IsWallMove(last.move) /\ Overlaps(last.before, last.move))
        => (last.result = "false" /\ RulesState(game) = RulesState(last.before))

(***************************************************************************)
(* C4.  openWays is the edge-complement of board.walls: upDown[r][c] is    *)
(* false iff a horizontal wall is at (r,c) or (r,c-1), leftRight[r][c] is  *)
(* false iff a vertical wall is at (r,c) or (r-1,c).                       *)
(***************************************************************************)
C4_OpenWaysMatchWalls ==
    /\ \A r \in WallIdx, c \in Rows :
          (~game.openWays.upDown[r][c])
              <=> \/ (c <= 7 /\ game.board.walls.horizontal[r][c])
                  \/ (c >= 1 /\ game.board.walls.horizontal[r][c - 1])
    /\ \A r \in Rows, c \in WallIdx :
          (~game.openWays.leftRight[r][c])
              <=> \/ (r <= 7 /\ game.board.walls.vertical[r][c])
                  \/ (r >= 1 /\ game.board.walls.vertical[r - 1][c])

(***************************************************************************)
(* C5.  For each pawn, the number of wall cells its own placements set in  *)
(* board.walls plus its numberOfLeftWalls is 10.                           *)
(***************************************************************************)
C5_WallAccounting ==
    \A i \in 0..1 :
        Cardinality(wallsPlacedBy[i]) + game.board.pawns[i].numberOfLeftWalls = InitialWalls

(***************************************************************************)
(* C6.  numberOfLeftWalls of each pawn stays within 0..10.                 *)
(***************************************************************************)
C6_LeftWallsInRange ==
    \A i \in 0..1 :
        /\ 0 <= game.board.pawns[i].numberOfLeftWalls
        /\ game.board.pawns[i].numberOfLeftWalls <= InitialWalls

(***************************************************************************)
(* C7.  From a state without winner, a successful pawn move that lands the *)
(* pawn of turn on its goal row sets winner to that pawn in the same call, *)
(* and every other successful move leaves winner null.                     *)
(***************************************************************************)
LandsOnGoalRow ==
    IsPawnMove(last.move) /\ last.move[1][1] = last.before.board.pawns[Mover].goalRow

C7_WinnerSetOnGoalRowOnly ==
    (last.result = "true" /\ last.before.winner = Null)
        => IF LandsOnGoalRow THEN game.winner = <<Mover>> ELSE game.winner = Null

C7_Witness ==
    /\ last.result = "true"
    /\ last.before.winner = Null
    /\ LandsOnGoalRow
    /\ game.board.pawns[Mover].position.row = game.board.pawns[Mover].goalRow
    /\ game.winner = <<Mover>>

(***************************************************************************)
(* C8.  Once winner is set no move succeeds: doMove(move, true) does not   *)
(* return true and positions, walls, wall counts and turn stay.            *)
(***************************************************************************)
C8_NoMoveAfterWin ==
    (Called /\ last.before.winner # Null)
        => /\ last.result # "true"
           /\ RulesState(game) = RulesState(last.before)

(***************************************************************************)
(* Vocabulary of the pawn-destination rules.  The rules are stated on the  *)
(* value the validNextPositions getter computes for a game; whether the    *)
(* cached value is that value is a separate matter.                        *)
(***************************************************************************)
Me(g) == Cell(pawnOfTurn(g).position)
Opp(g) == Cell(pawnOfNotTurn(g).position)

Marked(vnp, cell) == InBoard(cell) /\ vnp[cell[1]][cell[2]]

Perpendicular(s, d) == s[1] * d[1] + s[2] * d[2] = 0

\* a read of the getter on g gives the value computed for g
CacheCurrent(g) ==
    g._validNextPositionsUpdated => g._validNextPositions = computeValidNextPositions(g)

\* vnp follows the rule of the move without jump for the pawn of turn of g
NonJumpRule(g, vnp) ==
    \A d \in Directions :
        Plus(Me(g), d) # Opp(g)
            => (Marked(vnp, Plus(Me(g), d)) <=> WayOpen(g, Me(g), d))

\* vnp follows the rule of the straight jump for the pawn of turn of g
StraightJumpRule(g, vnp) ==
    \A d \in Directions :
        (Plus(Me(g), d) = Opp(g) /\ WayOpen(g, Me(g), d) /\ WayOpen(g, Opp(g), d))
            => /\ Marked(vnp, Plus(Opp(g), d))
               /\ \A s \in Directions :
                      Perpendicular(s, d) => ~Marked(vnp, Plus(Opp(g), s))

\* the last call was a checked pawn move made on a current cache
CheckedPawnMove ==
    Called /\ IsPawnMove(last.move) /\ last.needCheck /\ CacheCurrent(last.before)

(***************************************************************************)
(* C9.  For each direction whose adjacent cell is not the opponent's cell, *)
(* that cell is a valid next position iff it is inside the board and the   *)
(* openWays edge to it is open; a checked pawn move to such a cell returns *)
(* true exactly in that case.                                              *)
(***************************************************************************)
C9_AdjacentCellRule ==
    /\ NonJumpRule(game, computeValidNextPositions(game))
    /\ CheckedPawnMove =>
          \A d \in Directions :
              (last.move[1] = Plus(Me(last.before), d) /\ last.move[1] # Opp(last.before))
                  => (last.result = "true" <=> WayOpen(last.before, Me(last.before), d))

\* a checked pawn move toward a cell of the board behind a wall was refused,
\* and the positions it computed hold an open adjacent cell
C9_Witness ==
    /\ CheckedPawnMove
    /\ last.result = "false"
    /\ game._validNextPositionsUpdated
    /\ \E d \in Directions :
          /\ last.move[1] = Plus(Me(last.before), d)
          /\ InBoard(last.move[1])
          /\ last.move[1] # Opp(last.before)
          /\ ~WayOpen(last.before, Me(last.before), d)
    /\ \E e \in Directions :
          /\ Plus(Me(game), e) # Opp(game)
          /\ WayOpen(game, Me(game), e)
          /\ Marked(game._validNextPositions, Plus(Me(game), e))

(***************************************************************************)
(* C10.  When the opponent is on the adjacent cell in direction d, the     *)
(* edge to it is open and the edge behind it in direction d is open and    *)
(* inside the board, the cell two steps away is a valid next position and  *)
(* neither cell beside the opponent is; checked pawn moves to these cells  *)
(* return true and false accordingly.                                      *)
(***************************************************************************)
C10_StraightJumpOnly ==
    /\ StraightJumpRule(game, computeValidNextPositions(game))
    /\ CheckedPawnMove =>
          \A d \in Directions :
              (/\ Plus(Me(last.before), d) = Opp(last.before)
               /\ WayOpen(last.before, Me(last.before), d)
               /\ WayOpen(last.before, Opp(last.before), d))
                  => /\ last.move[1] = Plus(Opp(last.before), d) => last.result = "true"
                     /\ \A s \in Directions :
                            (Perpendicular(s, d) /\ last.move[1] = Plus(Opp(last.before), s))
                                => last.result = "false"

\* a checked pawn move jumped straight over the opponent
C10_Witness ==
    /\ CheckedPawnMove
    /\ last.result = "true"
    /\ \E d \in Directions :
          /\ Plus(Me(last.before), d) = Opp(last.before)
          /\ WayOpen(last.before, Me(last.before), d)
          /\ WayOpen(last.before, Opp(last.before), d)
          /\ last.move[1] = Plus(Opp(last.before), d)
          /\ Cell(game.board.pawns[Mover].position) = Plus(Opp(last.before), d)

\* vnp follows the rule of the lateral jumps for the pawn of turn of g
LateralJumpRule(g, vnp) ==
    \A d \in Directions :
        (Plus(Me(g), d) = Opp(g) /\ WayOpen(g, Me(g), d) /\ ~WayOpen(g, Opp(g), d))
            => /\ ~Marked(vnp, Opp(g))
               /\ ~Marked(vnp, Plus(Opp(g), d))
               /\ \A s \in Directions :
                      Perpendicular(s, d)
                          => (Marked(vnp, Plus(Opp(g), s)) <=> WayOpen(g, Opp(g), s))

\* in g the opponent is next to the pawn of turn in direction d, over an open
\* edge, and the step straight past the opponent is closed
JumpBlocked(g, d) ==
    Plus(Me(g), d) = Opp(g) /\ WayOpen(g, Me(g), d) /\ ~WayOpen(g, Opp(g), d)

(***************************************************************************)
(* C11.  When the opponent is on the adjacent cell in direction d and the  *)
(* step straight past it is closed by a wall or the board edge, each cell  *)
(* beside the opponent is a valid next position exactly when the edge from *)
(* the opponent's cell to it is open and inside the board; with both       *)
(* closed, direction d gives no destination (and the computation gives a   *)
(* value).  Checked pawn moves return true and false accordingly.          *)
(***************************************************************************)
C11_LateralJumpRule ==
    /\ LateralJumpRule(game, computeValidNextPositions(game))
    /\ CheckedPawnMove =>
          \A d \in Directions :
              JumpBlocked(last.before, d)
                  => /\ last.move[1] = Plus(Opp(last.before), d) => last.result = "false"
                     /\ last.move[1] = Opp(last.before) => last.result = "false"
                     /\ \A s \in Directions :
                            (Perpendicular(s, d) /\ last.move[1] = Plus(Opp(last.before), s))
                                => (last.result = "true"
                                       <=> WayOpen(last.before, Opp(last.before), s))

\* a checked pawn move jumped to the open side of the opponent while the
\* other side was closed by a wall
C11_Witness ==
    /\ CheckedPawnMove
    /\ last.result = "true"
    /\ \E d \in Directions :
          /\ JumpBlocked(last.before, d)
          /\ \E s \in Directions :
                /\ Perpendicular(s, d)
                /\ last.move[1] = Plus(Opp(last.before), s)
                /\ Cell(game.board.pawns[Mover].position) = Plus(Opp(last.before), s)
                /\ InBoard(Plus(Opp(last.before), <<-s[1], -s[2]>>))
                /\ ~WayOpen(last.before, Opp(last.before), <<-s[1], -s[2]>>)

\* the opponent is next to the pawn of turn, and the straight jump and both
\* lateral jumps are closed: the direction gives no destination
C11_DeadEndReached ==
    \E d \in Directions :
        /\ JumpBlocked(game, d)
        /\ \A s \in Directions : Perpendicular(s, d) => ~WayOpen(game, Opp(game), s)

(***************************************************************************)
(* Legal play: from a constructed game and from a game whose pawns have    *)
(* walked, the pawn of turn moves, or places a wall that overlaps no wall   *)
(* while it has walls left, with doMove(move, true), as long as nobody has *)
(* won; only accepted moves are kept.                                      *)
(***************************************************************************)
MaxLegalMoves == 3

LegalWallInputs ==
    {VerticalWall(7, 3), VerticalWall(7, 4), VerticalWall(5, 3), VerticalWall(5, 4),
     HorizontalWall(6, 1), HorizontalWall(6, 5), HorizontalWall(4, 3)}

LegalOpenings ==
    {[isHumanPlayerFirst |-> TRUE, moves |-> <<>>],
     [isHumanPlayerFirst |-> TRUE, moves |-> OpeningEndgame],
     [isHumanPlayerFirst |-> TRUE, moves |-> OpeningBoxedIn]}

LegalInit ==
    \E o \in LegalOpenings : StartsAt(Replay(Constructed(o.isHumanPlayerFirst), o.moves))

BecomesIfAccepted(st) == st.last.result = "true" /\ Becomes(st)

DoLegalWall(move) ==
    /\ nMoves < MaxLegalMoves
    /\ game.winner = Null
    /\ pawnOfTurn(game).numberOfLeftWalls > 0
    /\ ~Overlaps(game, move)
    /\ BecomesIfAccepted(Call([game |-> game, wallsPlacedBy |-> wallsPlacedBy, last |-> last],
                              move, TRUE))

PlaceLegalWall == \E move \in LegalWallInputs : DoLegalWall(move)

\* a pawn move that the game accepts
DoLegalPawnMove(move) ==
    /\ nMoves < MaxLegalMoves
    /\ game.winner = Null
    /\ BecomesIfAccepted(Call([game |-> game, wallsPlacedBy |-> wallsPlacedBy, last |-> last],
                              move, TRUE))

MoveLegalPawn == \E t \in PawnTargets(game) : DoLegalPawnMove(PawnMove(t[1], t[2]))

LegalNext == PlaceLegalWall \/ MoveLegalPawn

LegalSpec == LegalInit /\ [][LegalNext]_vars

AllWallMoves ==
    {HorizontalWall(r, c) : r \in WallIdx, c \in WallIdx}
        \cup {VerticalWall(r, c) : r \in WallIdx, c \in WallIdx}

\* the value of the connectivity test of doMove for the wall of a wall move
TestValue(g, move) ==
    IF IsHorizontalWallMove(move)
    THEN testIfExistPathsToGoalLinesAfterPlaceHorizontalWall(g, move[2][1], move[2][2]).result
    ELSE testIfExistPathsToGoalLinesAfterPlaceVerticalWall(g, move[3][1], move[3][2]).result

\* the precheck of the connectivity test for the wall of a wall move
ConnectedOnTwoPoints(g, move) ==
    IF IsHorizontalWallMove(move)
    THEN testIfConnectedOnTwoPointsForHorizontalWall(g, move[2][1], move[2][2])
    ELSE testIfConnectedOnTwoPointsForVerticalWall(g, move[3][1], move[3][2])

(***************************************************************************)
(* C12.  In legal play, for every wall cell that overlaps no wall, the     *)
(* connectivity test with its two-point shortcut gives the same value as   *)
(* closing the two edges of the wall and running the traversal for both    *)
(* pawns.                                                                  *)
(***************************************************************************)
C12_ShortcutAgreesWithTraversal ==
    \A move \in AllWallMoves :
        ~Overlaps(game, move)
            => TestValue(game, move) = existPathsToGoalLines(WithEdgesClosed(game, move))

\* a wall that overlaps no wall is refused by the traversal after the
\* precheck let it through, and another one is passed by the shortcut
C12_Witness ==
    /\ \E move \in AllWallMoves :
          /\ ~Overlaps(game, move)
          /\ ConnectedOnTwoPoints(game, move)
          /\ ~TestValue(game, move)
    /\ \E move \in AllWallMoves :
          /\ ~Overlaps(game, move)
          /\ ~ConnectedOnTwoPoints(game, move)
          /\ TestValue(game, move)
          /\ \E i \in 0..1 : HasPathToGoal(WithEdgesClosed(game, move), i)

\* the game after the connectivity test of doMove for the wall of a wall move
GameAfterTest(g, move) ==
    IF IsHorizontalWallMove(move)
    THEN testIfExistPathsToGoalLinesAfterPlaceHorizontalWall(g, move[2][1], move[2][2]).game
    ELSE testIfExistPathsToGoalLinesAfterPlaceVerticalWall(g, move[3][1], move[3][2]).game

(***************************************************************************)
(* C13.  The connectivity test is transactional: for any wall cell, after  *)
(* testIfExistPathsToGoalLinesAfterPlaceHorizontalWall / VerticalWall has  *)
(* returned, openWays holds the values it held before the call.            *)
(***************************************************************************)
C13_TestRestoresOpenWays ==
    \A move \in AllWallMoves : GameAfterTest(game, move).openWays = game.openWays

\* none, or more than one, of the three slots of a move is set
IsMalformed(move) == Cardinality({k \in 1..3 : move[k] # Null}) # 1

(***************************************************************************)
(* C14.  doMove given a move with none or more than one of its three slots *)
(* set fails and changes no part of the game state.                        *)
(***************************************************************************)
C14_MalformedMoveFails ==
    (Called /\ IsMalformed(last.move))
        => /\ last.result # "true"
           /\ RulesState(game) = RulesState(last.before)

\* the game is as its constructor left it
IsFresh == ~Called /\ nMoves = 0 /\ game._turn = 0

\* what holds of a new game whatever the constructor argument
FreshCommon(g) ==
    /\ \A i \in 0..1 : g.board.pawns[i].numberOfLeftWalls = InitialWalls
    /\ \A i \in 0..1 : g.board.pawns[i].index = i
    /\ g._turn = 0
    /\ g.winner = Null
    /\ \A r \in WallIdx, c \in WallIdx :
          g.validNextWalls.horizontal[r][c] /\ g.validNextWalls.vertical[r][c]

\* pawn i of g stands on the bottom row, centre, heading for row 0
StartsBottom(g, i) ==
    Cell(g.board.pawns[i].position) = <<8, 4>> /\ g.board.pawns[i].goalRow = 0

\* pawn i of g stands on the top row, centre, heading for row 8
StartsTop(g, i) ==
    Cell(g.board.pawns[i].position) = <<0, 4>> /\ g.board.pawns[i].goalRow = 8

\* the layout of new Game(isHumanPlayerFirst)
FreshLayout(g, isHumanPlayerFirst) ==
    /\ FreshCommon(g)
    /\ IF isHumanPlayerFirst
       THEN StartsBottom(g, 0) /\ StartsTop(g, 1)
       ELSE StartsTop(g, 0) /\ StartsBottom(g, 1)

(***************************************************************************)
(* C15, as stated.  A new Game, for every constructor argument, has pawn 0 *)
(* at (8,4) with goal row 0, pawn 1 at (0,4) with goal row 8, ten walls    *)
(* each, turn 0, no winner and all 128 cells of validNextWalls true.       *)
(***************************************************************************)
C15_FreshStateAsStated ==
    IsFresh => (FreshCommon(game) /\ StartsBottom(game, 0) /\ StartsTop(game, 1))

(***************************************************************************)
(* C15, amended.  new Game(true) has pawn 0 at (8,4) with goal row 0 and   *)
(* pawn 1 at (0,4) with goal row 8; new Game(false) has pawn 0 at (0,4)    *)
(* with goal row 8 and pawn 1 at (8,4) with goal row 0; both have ten      *)
(* walls each, turn 0, no winner and all 128 cells of validNextWalls true. *)
(***************************************************************************)
C15_FreshStateByArgument ==
    IsFresh => /\ \A b \in BOOLEAN : FreshLayout(Game(b), b)
               /\ \E b \in BOOLEAN : game = Game(b)

\* the game is new Game(false): pawn 0 starts on the top row
C15_Witness ==
    IsFresh /\ game = Game(FALSE) /\ StartsTop(game, 0) /\ StartsBottom(game, 1)


(***************************************************************************)
(* The controller driven by its user, by the search worker's messages and  *)
(* errors, and by the synchronous search of aiDo.  The pages are the one   *)
(* of window.onload (aiDevelopMode, the four methods wrapped) and a bare   *)
(* Controller playing against the AI.                                      *)
(***************************************************************************)
MaxEvents == 4
MaxCtlMoves == 2
MaxQueue == 2

CtlConfigs == {[aiDevelopMode |-> TRUE, hooked |-> TRUE],
               [aiDevelopMode |-> FALSE, hooked |-> FALSE]}

\* three legal walls after which the horizontal wall (6,3) would shut the
\* pawn at (8,4) in
OpeningNearlyShut == <<VerticalWall(7, 3), VerticalWall(7, 4), HorizontalWall(6, 2)>>

CtlOpenings == {[aiDevelopMode |-> TRUE, hooked |-> TRUE, moves |-> <<>>],
                [aiDevelopMode |-> FALSE, hooked |-> FALSE, moves |-> <<>>],
                [aiDevelopMode |-> TRUE, hooked |-> TRUE, moves |-> OpeningNearlyShut]}

\* moves given to Controller.doMove: a pawn step, walls around (8,4) (after
\* OpeningNearlyShut (6,3) overlaps a wall and shuts the pawn in, (6,4) shuts
\* it in and overlaps none), a move with no slot set
CtlMoveInputs ==
    {PawnMove(7, 4), HorizontalWall(6, 3), HorizontalWall(6, 4), VerticalWall(7, 3),
     <<Null, Null, Null>>}

RECURSIVE CtlReplay(_, _)

\* next is the controller after the first move of moves, which an opening
\* has accepted: the turn has advanced
CtlReplayRest(next, moves) ==
    IF next.game._turn > 0 THEN CtlReplay(next, Tail(moves)) ELSE next

\* the moves of an opening, each through Controller.doMove
CtlReplay(cs, moves) ==
    IF moves = <<>> THEN cs ELSE CtlReplayRest(Controller_doMove(cs, Head(moves)), moves)

\* new Controller(uctConst, aiDevelopMode); controller.startNewGame(true, ...)
Loaded(o) ==
    Controller_startNewGame([game |-> Null, ctl |-> Controller(o.aiDevelopMode, o.hooked)], TRUE)

CtlStartsAt(cs) ==
    /\ game = cs.game
    /\ ctl = cs.ctl
    /\ evt = NoEvent([game |-> game, ctl |-> ctl])
    /\ wallsPlacedBy = [i \in 0..1 |-> {}]
    /\ last = NoCall(cs.game)
    /\ nMoves = 0
    /\ copy = Null
    /\ workerScope = Null

CtlInit == \E o \in CtlOpenings : CtlStartsAt(CtlReplay(Loaded(o), o.moves))

Cs == [game |-> game, ctl |-> ctl]

Event(kind, from, stale, result, move) ==
    [kind |-> kind, from |-> from, stale |-> stale, result |-> result, move |-> move,
     before |-> Snapshot(Cs)]

CtlBecomes(cs, e) ==
    /\ game' = cs.game
    /\ ctl' = cs.ctl
    /\ evt' = e
    /\ nMoves' = nMoves + 1
    /\ UNCHANGED <<wallsPlacedBy, last, copy, workerScope>>

NoMove == <<Null, Null, Null>>

\* the main thread is free: no synchronous search is running
Idle == nMoves < MaxEvents /\ ctl.search = Null

WorkerIds == 1..Len(ctl.workers)

\* controller.doMove(move)
UiDoMove ==
    \E move \in CtlMoveInputs :
        /\ Idle
        /\ nMoves < MaxCtlMoves
        /\ CtlBecomes(Hooked(Controller_doMove(Cs, move)),
                      Event("doMove", 0, FALSE, doMove(game, move, TRUE).result, move))

UiUndo == Idle /\ CtlBecomes(Hooked(Controller_undo(Cs)), Event("undo", 0, FALSE, "none", NoMove))

UiRedo == Idle /\ CtlBecomes(Hooked(Controller_redo(Cs)), Event("redo", 0, FALSE, "none", NoMove))

UiStartNewGame ==
    \E isHumanPlayerFirst \in BOOLEAN :
        /\ Idle
        /\ CtlBecomes(Hooked(Controller_startNewGame(Cs, isHumanPlayerFirst)),
                      Event("startNewGame", 0, FALSE, "none", NoMove))

\* a click on the MCTS button of the page of window.onload
UiMctsButton ==
    /\ Idle
    /\ ctl.hooked
    /\ CtlBecomes(mctsBtnOnclick(Cs), Event("mctsButton", 0, FALSE, "none", NoMove))

\* controller.showMCTSCandidates() called directly
UiShowMCTSCandidates ==
    /\ Idle
    /\ CtlBecomes(Controller_showMCTSCandidates(Cs),
                  Event("showMCTSCandidates", 0, FALSE, "none", NoMove))

\* the moves a search tries and returns: the pawn moves the game accepts
AiMoves(g) ==
    {move \in {PawnMove(t[1], t[2]) : t \in PawnTargets(g)} :
        doMove(g, move, TRUE).result = "true"}

\* the state the search holds after trying move on it; a search that was
\* handed the game itself changes the game
Simulated(cs, move) ==
    IF cs.ctl.search[1].shared
    THEN [cs EXCEPT !.game = doMove(cs.ctl.search[1].game, move, FALSE).game,
                    !.ctl.search[1].game = doMove(cs.ctl.search[1].game, move, FALSE).game]
    ELSE [cs EXCEPT !.ctl.search[1].game = doMove(cs.ctl.search[1].game, move, FALSE).game]

\* ai.chooseNextMove tries a move on the state it was handed
AiSimulates ==
    /\ nMoves < MaxEvents
    /\ ctl.search # Null
    /\ ctl.search[1].game._turn = game._turn
    /\ \E move \in AiMoves(ctl.search[1].game) :
           CtlBecomes(Simulated(Cs, move), Event("aiSimulates", 0, FALSE, "none", move))

\* ai.chooseNextMove returns move and aiDo calls this.doMove(move)
AiReturns ==
    /\ nMoves < MaxCtlMoves + 1
    /\ ctl.search # Null
    /\ \E move \in AiMoves(game) :
           CtlBecomes(Controller_doMove([Cs EXCEPT !.ctl.search = Null], move),
                      Event("aiReturns", 0, FALSE, doMove(game, move, TRUE).result, move))

\* worker.js onmessage without the test of game.winner: the search runs on
\* any game
Searching_onAnyGame(w) ==
    /\ ~w.terminated
    /\ w.job # Null
    /\ ~w.finished

\* worker.js onmessage runs the search when the game it received has no
\* winner, until the search returns or the worker is terminated
Searching(w) ==
    /\ ~w.terminated
    /\ w.job # Null
    /\ ~w.finished
    /\ w.job[1].winner = Null

WorkerBecomes(id, w, kind) ==
    CtlBecomes([Cs EXCEPT !.ctl.workers[id] = w], Event(kind, id, FALSE, "none", NoMove))

\* the search posts a progress number or a candidates list
WorkerPosts ==
    \E id \in WorkerIds, msg \in {"progress", "candidates"} :
        /\ nMoves < MaxEvents
        /\ Searching(ctl.workers[id])
        /\ Len(ctl.workers[id].queue) < MaxQueue
        /\ WorkerBecomes(id, [ctl.workers[id] EXCEPT !.queue = Append(@, msg)], "workerPosts")

\* the search of the worker tries a move on the game it received
WorkerSimulates ==
    \E id \in WorkerIds :
        /\ nMoves < MaxEvents
        /\ Searching(ctl.workers[id])
        /\ ctl.workers[id].job[1]._turn = game._turn
        /\ \E move \in AiMoves(ctl.workers[id].job[1]) :
               WorkerBecomes(id, [ctl.workers[id] EXCEPT
                                     !.job[1] = doMove(ctl.workers[id].job[1], move, FALSE).game],
                             "workerSimulates")

\* chooseNextMove returns and worker.js posts the move
WorkerFinishes ==
    \E id \in WorkerIds :
        /\ nMoves < MaxEvents
        /\ Searching(ctl.workers[id])
        /\ Len(ctl.workers[id].queue) < MaxQueue
        /\ WorkerBecomes(id, [ctl.workers[id] EXCEPT !.queue = Append(@, "final"),
                                                     !.finished = TRUE],
                         "workerFinishes")

\* an uncaught error in a running worker queues an error event for the
\* Worker object; only the workers of showMCTSCandidates listen for it
WorkerFails ==
    \E id \in WorkerIds :
        /\ nMoves < MaxEvents
        /\ ~ctl.workers[id].terminated
        /\ ctl.workers[id].handlers
        /\ ctl.workers[id].errors = 0
        /\ WorkerBecomes(id, [ctl.workers[id] EXCEPT !.errors = 1], "workerFails")

\* the main thread dispatches the oldest message of worker id to onmessage
DispatchesMessage ==
    \E id \in WorkerIds :
        /\ Idle
        /\ ctl.workers[id].handlers
        /\ ctl.workers[id].queue # <<>>
        /\ CtlBecomes(onmessage([Cs EXCEPT !.ctl.workers[id].queue = Tail(@)], id,
                                Head(ctl.workers[id].queue)),
                      Event(Head(ctl.workers[id].queue), id, ctl.workers[id].terminated,
                            "none", NoMove))

\* the main thread dispatches the error event of worker id to onerror
DispatchesError ==
    \E id \in WorkerIds :
        /\ Idle
        /\ ctl.workers[id].handlers
        /\ ctl.workers[id].errors > 0
        /\ CtlBecomes(onerror([Cs EXCEPT !.ctl.workers[id].errors = 0], id),
                      Event("error", id, ctl.workers[id].terminated, "none", NoMove))

CtlNext ==
    \/ UiDoMove
    \/ UiUndo
    \/ UiRedo
    \/ UiStartNewGame
    \/ UiMctsButton
    \/ UiShowMCTSCandidates
    \/ AiSimulates
    \/ AiReturns
    \/ WorkerPosts
    \/ WorkerSimulates
    \/ WorkerFinishes
    \/ WorkerFails
    \/ DispatchesMessage
    \/ DispatchesError

CtlSpec == CtlInit /\ [][CtlNext]_vars


(***************************************************************************)
(* Properties of the controller and its search sessions.                   *)
(***************************************************************************)
Live(id) == ~ctl.workers[id].terminated

WasLive(id) == id \in 1..Len(evt.before.workers) /\ ~evt.before.workers[id].terminated

HistoriesUnchanged ==
    /\ ctl.gameHistory = evt.before.gameHistory
    /\ ctl.gameHistoryTrashCan = evt.before.gameHistoryTrashCan

\* C16: in every state reached by startNewGame, undo, redo, doMove (wrapped
\* or not), showMCTSCandidates, the MCTS button, the messages and the errors
\* of the workers, the only worker not terminated, if there is one, is the
\* one held in controller.worker: a controller has at most one live worker
C16_AtMostOneLiveWorker ==
    \A id \in WorkerIds : Live(id) => ctl.worker = <<id>>

\* a session was started while the worker of the previous one was live
C16_Witness ==
    /\ evt.kind \in {"doMove", "undo", "redo", "startNewGame", "showMCTSCandidates"}
    /\ evt.before.worker # Null
    /\ WasLive(evt.before.worker[1])
    /\ evt.before.workers[evt.before.worker[1]].job # Null
    /\ ctl.worker # Null
    /\ ctl.worker # evt.before.worker
    /\ ~Live(evt.before.worker[1])
    /\ Live(ctl.worker[1])

MessageKinds == {"progress", "candidates", "final"}

C18_SearchLeavesGameAlone ==
    evt.kind \in {"aiSimulates", "workerSimulates", "workerPosts", "workerFinishes"} =>
        game = evt.before.game /\ HistoriesUnchanged

\* the search of aiDo has changed the state it was handed
C18_Witness ==
    /\ evt.kind = "aiSimulates"
    /\ ctl.search # Null
    /\ ctl.search[1].game # game
    /\ evt.before.search[1].game = game

\* the search of a worker has changed the game it received
C18_WorkerReached ==
    /\ evt.kind = "workerSimulates"
    /\ ctl.workers[evt.from].job[1] # game

\* C19: after the error event of a worker is handled no worker is live,
\* controller.worker is null, and the game and both histories are as before
C19_ErrorTearsSessionDown ==
    evt.kind = "error" =>
        /\ ctl.worker = Null
        /\ \A id \in WorkerIds : ~Live(id)
        /\ game = evt.before.game
        /\ HistoriesUnchanged

\* the error of the running session was handled
C19_Witness ==
    /\ evt.kind = "error"
    /\ ~evt.stale
    /\ evt.before.worker = <<evt.from>>
    /\ WasLive(evt.from)

\* the error event of a terminated session was handled while a newer
\* session ran
C19_StaleErrorReached ==
    /\ evt.kind = "error"
    /\ evt.stale
    /\ evt.before.worker # Null
    /\ evt.before.worker # <<evt.from>>

\* C20: after Controller.doMove with a wall move that Game.doMove rejects,
\* controller.game is equal to the game before the call and gameHistory and
\* gameHistoryTrashCan are unchanged
C20_RejectedMoveLeavesAllUnchanged ==
    (evt.kind = "doMove" /\ IsWallMove(evt.move) /\ evt.result = "false") =>
        game = evt.before.game /\ HistoriesUnchanged

\* a rejected wall move that left the game as it was
C20_RejectedReached ==
    /\ evt.kind = "doMove"
    /\ IsWallMove(evt.move)
    /\ evt.result = "false"
    /\ game = evt.before.game


(***************************************************************************)
(* A game and a clone of it, each driven by doMove calls.  The clone is    *)
(* kept in copy as [game, shared, ...]: shared is the set of fields whose  *)
(* object the clone holds in common with the original, so that a write     *)
(* into such a field through one of the two is seen through the other.     *)
(***************************************************************************)
MaxCloneMoves == 2

\* the fields of a game that hold objects
ObjectFields ==
    {"board", "validNextWalls", "openWays", "_probableNextWalls", "_validNextPositions"}

\* a clone that copies the fields of the game object and not the objects
\* they hold
Game_clone_shallow(g) == [game |-> g, shared |-> ObjectFields]

\* Game.clone(g): a new Game with a copy of every value of g, down to the
\* arrays and the pawns
Game_clone(g) == [game |-> Clone(g), shared |-> {}]

\* the game other after target, which shares the fields of shared with it,
\* was written
WrittenThrough(other, target, shared) ==
    [f \in DOMAIN other |-> IF f \in shared THEN target[f] ELSE other[f]]

Cloned(c, g) ==
    <<[game |-> c.game, shared |-> c.shared, result |-> "none", kind |-> "clone",
       inStep |-> TRUE, before |-> c.game, originalBefore |-> g]>>

CloneOpenings ==
    {[isHumanPlayerFirst |-> TRUE, moves |-> <<>>],
     [isHumanPlayerFirst |-> TRUE, moves |-> OpeningCorridor],
     [isHumanPlayerFirst |-> FALSE, moves |-> OpeningMeeting]}

CloneStartsAt(st) ==
    /\ game = st.game
    /\ wallsPlacedBy = st.wallsPlacedBy
    /\ last = NoCall(st.game)
    /\ nMoves = 0
    /\ ctl = Controller(TRUE, FALSE)
    /\ evt = NoEvent(Unused(st.game))
    /\ copy = Cloned(Game_clone(game), game)
    /\ workerScope = Null

CloneInit ==
    \E o \in CloneOpenings : CloneStartsAt(Replay(Constructed(o.isHumanPlayerFirst), o.moves))

CloneBecomes(st, c) ==
    /\ game' = st.game
    /\ wallsPlacedBy' = st.wallsPlacedBy
    /\ last' = st.last
    /\ nMoves' = nMoves + 1
    /\ copy' = <<c>>
    /\ UNCHANGED <<ctl, evt, workerScope>>

Here == [game |-> game, wallsPlacedBy |-> wallsPlacedBy, last |-> last]

\* moves of the pawn of turn, walls on the cells of WallCellInputs, a move
\* with no slot set
CloneMoveInputs ==
    {PawnMove(t[1], t[2]) : t \in PawnTargets(game)}
    \cup {HorizontalWall(w[1], w[2]) : w \in WallCellInputs}
    \cup {VerticalWall(w[1], w[2]) : w \in WallCellInputs}
    \cup {<<Null, Null, Null>>}

\* st is the original after its call, r the outcome of the same call on the
\* clone
BothThen(st, r) ==
    CloneBecomes([st EXCEPT !.game = WrittenThrough(st.game, r.game, copy[1].shared)],
                 [copy[1] EXCEPT !.game = r.game, !.result = r.result, !.kind = "both",
                                 !.before = copy[1].game, !.originalBefore = game])

BothFrom(st, move, needCheck) ==
    BothThen(st, doMove(WrittenThrough(copy[1].game, st.game, copy[1].shared), move, needCheck))

\* the same doMove(move, needCheck) call on the game and on the clone
DoOnBoth ==
    \E move \in CloneMoveInputs, needCheck \in BOOLEAN :
        /\ nMoves < MaxCloneMoves
        /\ BothFrom(Call(Here, move, needCheck), move, needCheck)

OriginalThen(st) ==
    CloneBecomes(st,
                 [copy[1] EXCEPT !.game = WrittenThrough(copy[1].game, st.game, copy[1].shared),
                                 !.result = "none", !.kind = "original", !.inStep = FALSE,
                                 !.before = copy[1].game, !.originalBefore = game])

\* a doMove call on the game only
DoOnOriginal ==
    \E move \in CloneMoveInputs :
        /\ nMoves < MaxCloneMoves
        /\ OriginalThen(Call(Here, move, TRUE))

CloneThen(r) ==
    CloneBecomes([Here EXCEPT !.game = WrittenThrough(game, r.game, copy[1].shared)],
                 [copy[1] EXCEPT !.game = r.game, !.result = r.result, !.kind = "copy",
                                 !.inStep = FALSE,
                                 !.before = copy[1].game, !.originalBefore = game])

\* a doMove call on the clone only
DoOnClone ==
    \E move \in CloneMoveInputs :
        /\ nMoves < MaxCloneMoves
        /\ CloneThen(doMove(copy[1].game, move, TRUE))

\* the game is cloned again
CloneAgain ==
    /\ nMoves < MaxCloneMoves
    /\ ~copy[1].inStep
    /\ CloneBecomes(Here, Cloned(Game_clone(game), game)[1])

CloneNext == DoOnBoth \/ DoOnOriginal \/ DoOnClone \/ CloneAgain

CloneSpec == CloneInit /\ [][CloneNext]_vars

C21_OriginalAloneReached ==
    /\ copy # Null
    /\ copy[1].kind = "original"
    /\ game # copy[1].originalBefore


(***************************************************************************)
(* A worker.js thread serving the requests posted to it.  workerScope is   *)
(* <<[globalAI, built, data, previous, answered, used, reused, posted]>>:  *)
(* the engine the thread keeps, the number of engines built so far, the    *)
(* data of the last event and of the one before, the data of the last      *)
(* event that was answered, the engine that answered the last event (Null  *)
(* when it was not answered), whether that engine is the one kept from     *)
(* before, and the message posted.                                         *)
(***************************************************************************)
MaxRequests == 3

\* new AI(numOfMCTSSimulations, uctConst, aiDevelopMode, forWorker); id tells
\* one instance from another
AI(numOfMCTSSimulations, uctConst, aiDevelopMode, forWorker, id) ==
    [numOfMCTSSimulations |-> numOfMCTSSimulations, uctConst |-> uctConst,
     aiDevelopMode |-> aiDevelopMode, forWorker |-> forWorker, id |-> id]

\* an engine is kept whenever the budget is the same
keepsGlobalAI_budgetOnly(globalAI, data) ==
    /\ globalAI # Null
    /\ globalAI[1].numOfMCTSSimulations = data.numOfMCTSSimulations

\* worker.js onmessage: globalAI is set and neither of its two parameters
\* differs from the event's
keepsGlobalAI(globalAI, data) ==
    /\ globalAI # Null
    /\ ~(\/ globalAI[1].numOfMCTSSimulations # data.numOfMCTSSimulations
         \/ globalAI[1].uctConst # data.uctConst)

\* the engine of the thread once the event is looked at
globalAIFor(w, data) ==
    IF keepsGlobalAI(w.globalAI, data)
    THEN w.globalAI
    ELSE <<AI(data.numOfMCTSSimulations, data.uctConst, data.aiDevelopMode, TRUE, w.built + 1)>>

\* onmessage with a game that has no winner: move is what chooseNextMove
\* returns
answer(w, data, ai, move) ==
    [globalAI |-> ai, built |-> IF ai = w.globalAI THEN w.built ELSE w.built + 1,
     data |-> data, previous |-> <<w.data>>, answered |-> <<data>>,
     used |-> ai, reused |-> ai = w.globalAI, posted |-> <<move>>]

\* onmessage with a game that has a winner: nothing is done
skip(w, data) ==
    [w EXCEPT !.data = data, !.previous = <<w.data>>, !.used = Null, !.reused = FALSE,
              !.posted = Null]

NoData ==
    [game |-> Null, numOfMCTSSimulations |-> 0, uctConst |-> 0, aiDevelopMode |-> FALSE]

WorkerStarted ==
    [globalAI |-> Null, built |-> 0, data |-> NoData, previous |-> Null, answered |-> Null,
     used |-> Null, reused |-> FALSE, posted |-> Null]

\* the games of the requests: one in play and one that is won
RequestGames == {GameHumanFirst, [GameHumanFirst EXCEPT !.winner = <<0>>]}

Budgets == {100, 200}

\* exploration constants, in tenths
UctConsts == {5, 14}

RequestData ==
    [game : RequestGames, numOfMCTSSimulations : Budgets, uctConst : UctConsts,
     aiDevelopMode : BOOLEAN]

WorkerInit ==
    /\ game = GameHumanFirst
    /\ wallsPlacedBy = [i \in {0, 1} |-> 0]
    /\ last = NoCall(game)
    /\ nMoves = 0
    /\ ctl = Controller(TRUE, FALSE)
    /\ evt = NoEvent(Unused(game))
    /\ copy = Null
    /\ workerScope = <<WorkerStarted>>

WorkerScopeBecomes(w) ==
    /\ workerScope' = <<w>>
    /\ nMoves' = nMoves + 1
    /\ UNCHANGED <<game, wallsPlacedBy, last, ctl, evt, copy>>

\* onmessage, game.winner === null
OnMessageAnswers ==
    \E data \in RequestData :
        /\ nMoves < MaxRequests
        /\ data.game.winner = Null
        /\ \E move \in AiMoves(data.game) :
               WorkerScopeBecomes(answer(workerScope[1], data,
                                         globalAIFor(workerScope[1], data), move))

\* onmessage, game.winner !== null
OnMessageSkips ==
    \E data \in RequestData :
        /\ nMoves < MaxRequests
        /\ data.game.winner # Null
        /\ WorkerScopeBecomes(skip(workerScope[1], data))

WorkerNext == OnMessageAnswers \/ OnMessageSkips

WorkerSpec == WorkerInit /\ [][WorkerNext]_vars

SameConfiguration(a, b) ==
    /\ a.numOfMCTSSimulations = b.numOfMCTSSimulations
    /\ a.uctConst = b.uctConst

Answered == workerScope # Null /\ workerScope[1].used # Null

\* C22 as stated: the engine that answers a request has the budget and the
\* exploration constant of the request, and it is the engine kept from
\* before only when both are the same as in the previous request
C22_EngineFollowsPreviousRequest ==
    Answered =>
        /\ SameConfiguration(workerScope[1].used[1], workerScope[1].data)
        /\ workerScope[1].reused =>
               /\ workerScope[1].previous # Null
               /\ workerScope[1].previous[1].game # Null
               /\ SameConfiguration(workerScope[1].previous[1], workerScope[1].data)

\* C22: the engine that answers a request has the budget and the
\* exploration constant of the request, and it is the engine kept from
\* before exactly when both are the same as in the last request that was
\* answered
C22_EngineFollowsLastAnsweredRequest ==
    [][(workerScope # Null /\ workerScope'[1].used # Null) =>
          /\ SameConfiguration(workerScope'[1].used[1], workerScope'[1].data)
          /\ workerScope'[1].reused <=>
                 /\ workerScope[1].answered # Null
                 /\ SameConfiguration(workerScope[1].answered[1], workerScope'[1].data)]_vars

\* a request is answered by the engine built for an earlier one
C22_Witness ==
    /\ Answered
    /\ workerScope[1].reused
    /\ workerScope[1].built = 1
    /\ nMoves = MaxRequests

\* a request is answered by a new engine that replaces the one kept
C22_RebuiltReached ==
    /\ Answered
    /\ ~workerScope[1].reused
    /\ workerScope[1].built > 1


(***************************************************************************)
(* A search session of the engine on a root state.  workerScope is         *)
(* <<[children, budget, done, posted]>>: the children of the root in the   *)
(* order of the candidates, each with its move, its visit count numSims    *)
(* and its win count numWins; the simulation budget; the simulations done; *)
(* the move posted when the session is over.                               *)
(***************************************************************************)
MaxBudget == 5

MoveKey(move) == move[1][1] * BoardSize + move[1][2]

RECURSIVE CandidateOrder(_)
\* the candidate moves in their fixed order
CandidateOrder(moves) ==
    IF moves = {}
    THEN <<>>
    ELSE LET first == CHOOSE m \in moves : \A n \in moves : MoveKey(m) <= MoveKey(n)
         IN  <<first>> \o CandidateOrder(moves \ {first})

RootChildren(g) ==
    [i \in 1..Len(CandidateOrder(AiMoves(g))) |->
        [move |-> CandidateOrder(AiMoves(g))[i], numSims |-> 0, numWins |-> 0]]

\* the first child with the most wins
bestChild_byWins(children) ==
    CHOOSE i \in DOMAIN children :
        /\ \A j \in DOMAIN children : children[j].numWins <= children[i].numWins
        /\ \A j \in 1..(i - 1) : children[j].numWins < children[i].numWins

\* the final answer: the first child, in the order of the candidates, with
\* the highest visit count
bestChild(children) ==
    CHOOSE i \in DOMAIN children :
        /\ \A j \in DOMAIN children : children[j].numSims <= children[i].numSims
        /\ \A j \in 1..(i - 1) : children[j].numSims < children[i].numSims

\* a simulation through child i is backpropagated to it
backpropagated(t, i, won) ==
    [t EXCEPT !.children[i].numSims = @ + 1,
              !.children[i].numWins = IF won THEN @ + 1 ELSE @,
              !.done = @ + 1]

SearchBudgets == 3..MaxBudget

SearchRoots == {GameHumanFirst, GameHumanSecond}

SearchInit ==
    /\ game = GameHumanFirst
    /\ wallsPlacedBy = [i \in {0, 1} |-> 0]
    /\ last = NoCall(game)
    /\ nMoves = 0
    /\ ctl = Controller(TRUE, FALSE)
    /\ evt = NoEvent(Unused(game))
    /\ copy = Null
    /\ \E g \in SearchRoots, budget \in SearchBudgets :
           workerScope = <<[children |-> RootChildren(g), budget |-> budget, done |-> 0,
                            posted |-> Null]>>

SearchBecomes(t) ==
    /\ workerScope' = <<t>>
    /\ nMoves' = nMoves + 1
    /\ UNCHANGED <<game, wallsPlacedBy, last, ctl, evt, copy>>

\* a child that was never visited is selected before any other
Selectable(t, i) ==
    \/ t.children[i].numSims = 0
    \/ \A j \in DOMAIN t.children : t.children[j].numSims > 0

\* one simulation: selection, rollout, backpropagation
Simulates ==
    \E i \in DOMAIN workerScope[1].children, won \in BOOLEAN :
        /\ workerScope[1].posted = Null
        /\ workerScope[1].done < workerScope[1].budget
        /\ Selectable(workerScope[1], i)
        /\ SearchBecomes(backpropagated(workerScope[1], i, won))

\* the budget is exhausted: chooseNextMove returns and the move is posted
Returns ==
    /\ workerScope[1].posted = Null
    /\ workerScope[1].done = workerScope[1].budget
    /\ SearchBecomes([workerScope[1] EXCEPT
                         !.posted = <<workerScope[1].children[bestChild(workerScope[1].children)].move>>])

SearchNext == Simulates \/ Returns

SearchSpec == SearchInit /\ [][SearchNext]_vars

Posted == workerScope # Null /\ workerScope[1].posted # Null

MostVisited(children) ==
    {i \in DOMAIN children : \A j \in DOMAIN children : children[j].numSims <= children[i].numSims}

MaxFlowMoves == 2

\* walls after which the pawn at (8,4) has the cells (7,3), (8,3), (7,4),
\* (8,4) and one way out of them, up from (7,4)
OpeningTwoWide == <<VerticalWall(7, 2), VerticalWall(7, 4), HorizontalWall(6, 2)>>

FlowOpenings == {<<>>, OpeningTwoWide, OpeningNearlyShut}

\* the wall cells clicked
FlowWallCells == {<<6, 3>>, <<6, 4>>, <<7, 3>>, <<5, 4>>, <<0, 4>>}

\* the moves Controller.doMove is called with apart from a click
FlowDirectMoves == {HorizontalWall(6, 3), HorizontalWall(6, 4), <<Null, Null, Null>>}

FlowInit ==
    \E moves \in FlowOpenings :
        CtlStartsAt(CtlReplay(Loaded([aiDevelopMode |-> TRUE, hooked |-> FALSE]), moves))

\* cs is the controller after Controller.doMove(move), r the outcome of
\* game.doMove(move, true) in it
FlowBecomes(cs, r, move, kind) ==
    /\ game' = cs.game
    /\ ctl' = cs.ctl
    /\ evt' = Event(kind, 0, FALSE, r.result, move)
    /\ nMoves' = nMoves + 1
    /\ last' = IF kind = "doMove"
               THEN [last EXCEPT !.result = r.result, !.move = move] ELSE last
    /\ UNCHANGED <<wallsPlacedBy, copy, workerScope>>

FlowDoMove(r, move, kind) == FlowBecomes(Controller_doMoveFrom(Cs, r), r, move, kind)

\* the cells of validNextPositions that are true, read as the view reads it
ClickablePositions(g) == TrueCells(validNextPositions(g)._validNextPositions)

\* onCanvasClick on a cell the pawn of turn can move to
ClickPosition ==
    \E t \in ClickablePositions(game) :
        /\ nMoves < MaxFlowMoves
        /\ FlowDoMove(doMove(validNextPositions(game), PawnMove(t[1], t[2]), TRUE),
                      PawnMove(t[1], t[2]), "click")

\* onCanvasClick on the strip of a horizontal wall
ClickHorizontalWall ==
    \E w \in FlowWallCells :
        /\ nMoves < MaxFlowMoves
        /\ game.validNextWalls.horizontal[w[1]][w[2]]
        /\ FlowDoMove(doMove(game, HorizontalWall(w[1], w[2]), TRUE),
                      HorizontalWall(w[1], w[2]), "click")

\* onCanvasClick on the strip of a vertical wall
ClickVerticalWall ==
    \E w \in FlowWallCells :
        /\ nMoves < MaxFlowMoves
        /\ game.validNextWalls.vertical[w[1]][w[2]]
        /\ FlowDoMove(doMove(game, VerticalWall(w[1], w[2]), TRUE),
                      VerticalWall(w[1], w[2]), "click")

\* controller.doMove(move) called with a move the view did not check
DirectDoMove ==
    \E move \in FlowDirectMoves :
        /\ nMoves < MaxFlowMoves
        /\ FlowDoMove(doMove(game, move, TRUE), move, "doMove")

FlowNext == ClickPosition \/ ClickHorizontalWall \/ ClickVerticalWall \/ DirectDoMove

FlowSpec == FlowInit /\ [][FlowNext]_vars

\* every move so far was issued by a click
ClicksOnly == last.result = "none"

\* C24: while every move is issued by a click on a true cell, both pawns
\* keep a path to their goal rows and game.doMove(move, true) does not
\* return false
C24_ClicksKeepPathsAndSucceed ==
    ClicksOnly =>
        /\ \A i \in 0..1 : HasPathToGoal(game, i)
        /\ evt.kind = "click" => evt.result = "true"

\* a wall was placed by a click while a click on another wall cell is
\* refused because that wall would shut a pawn in
C24_Witness ==
    /\ ClicksOnly
    /\ evt.kind = "click"
    /\ IsWallMove(evt.move)
    /\ evt.result = "true"
    /\ \E w \in FlowWallCells :
           /\ ~game.validNextWalls.horizontal[w[1]][w[2]]
           /\ ~Overlaps(game, HorizontalWall(w[1], w[2]))
           /\ WouldBlock(game, HorizontalWall(w[1], w[2]))


\* the open ways the walls on the board leave: an edge is closed when one of
\* the two walls that can cover it is on the board
WaysLeftByWalls(g) ==
    [upDown |->
        [i \in 0..(WallGridSize - 1) |-> [j \in 0..(BoardSize - 1) |->
            ~(\/ (j < WallGridSize /\ g.board.walls.horizontal[i][IF j < WallGridSize THEN j ELSE 0])
              \/ (j > 0 /\ g.board.walls.horizontal[i][IF j > 0 THEN j - 1 ELSE 0]))]],
     leftRight |->
        [i \in 0..(BoardSize - 1) |-> [j \in 0..(WallGridSize - 1) |->
            ~(\/ (i < WallGridSize /\ g.board.walls.vertical[IF i < WallGridSize THEN i ELSE 0][j])
              \/ (i > 0 /\ g.board.walls.vertical[IF i > 0 THEN i - 1 ELSE 0][j]))]]]

\* the wall of a wall move is legal on the board of g: it overlaps no wall
\* and leaves both pawns a path
IsLegalWall(g, move) ==
    /\ ~Overlaps(g, move)
    /\ ~WouldBlock([g EXCEPT !.openWays = WaysLeftByWalls(g)], move)

ValidNextWallsEntry(g, move) ==
    IF IsHorizontalWallMove(move)
    THEN g.validNextWalls.horizontal[move[2][1]][move[2][2]]
    ELSE g.validNextWalls.vertical[move[3][1]][move[3][2]]

\* C25: after the constructor and after every Controller.doMove an entry of
\* validNextWalls is true exactly when the wall overlaps no wall on the
\* board and closing its two edges leaves both pawns a path
C25_ValidNextWallsIsLegalSet ==
    \A move \in AllWallMoves : ValidNextWallsEntry(game, move) <=> IsLegalWall(game, move)

\* the same after moves that were all issued by clicks
C25_AfterClicks == ClicksOnly => C25_ValidNextWallsIsLegalSet

\* after a click, a wall cell that is free of walls has a false entry
C25_AfterClicksReached ==
    /\ ClicksOnly
    /\ evt.kind = "click"
    /\ evt.move = VerticalWall(7, 3)
    /\ \E move \in AllWallMoves : ~Overlaps(game, move) /\ ~ValidNextWallsEntry(game, move)


(***************************************************************************)
(* The probableValidNextWalls getter: the wall cells the search tries.     *)
(***************************************************************************)
\* the horizontal cells Game.setWallsBesidePawn sets for a pawn at (row, col)
horizontalBesidePawn(row, col) ==
    (IF row >= 1 /\ col >= 1 THEN {<<row - 1, col - 1>>} ELSE {})
    \cup (IF row >= 1 /\ col >= 2 THEN {<<row - 1, col - 2>>} ELSE {})
    \cup (IF row >= 1 /\ col <= 7 THEN {<<row - 1, col>>} ELSE {})
    \cup (IF row >= 1 /\ col <= 6 THEN {<<row - 1, col + 1>>} ELSE {})
    \cup (IF row <= 7 /\ col >= 1 THEN {<<row, col - 1>>} ELSE {})
    \cup (IF row <= 7 /\ col >= 2 THEN {<<row, col - 2>>} ELSE {})
    \cup (IF row <= 7 /\ col <= 7 THEN {<<row, col>>} ELSE {})
    \cup (IF row <= 7 /\ col <= 6 THEN {<<row, col + 1>>} ELSE {})

\* the vertical cells Game.setWallsBesidePawn sets for a pawn at (row, col)
verticalBesidePawn(row, col) ==
    (IF row >= 1 /\ col >= 1 THEN {<<row - 1, col - 1>>} ELSE {})
    \cup (IF row >= 1 /\ col <= 7 THEN {<<row - 1, col>>} ELSE {})
    \cup (IF row >= 2 /\ col >= 1 THEN {<<row - 2, col - 1>>} ELSE {})
    \cup (IF row >= 2 /\ col <= 7 THEN {<<row - 2, col>>} ELSE {})
    \cup (IF row <= 7 /\ col >= 1 THEN {<<row, col - 1>>} ELSE {})
    \cup (IF row <= 7 /\ col <= 7 THEN {<<row, col>>} ELSE {})
    \cup (IF row <= 6 /\ col >= 1 THEN {<<row + 1, col - 1>>} ELSE {})
    \cup (IF row <= 6 /\ col <= 7 THEN {<<row + 1, col>>} ELSE {})

setWallsBesidePawn(wall2DArrays, pawn) ==
    [horizontal |-> SetCells(wall2DArrays.horizontal,
                             horizontalBesidePawn(pawn.position.row, pawn.position.col), TRUE),
     vertical |-> SetCells(wall2DArrays.vertical,
                           verticalBesidePawn(pawn.position.row, pawn.position.col), TRUE)]

\* the cells added from turn 6 on: the leftmost and rightmost horizontal walls
withSideWalls(g, wall2DArrays) ==
    IF g._turn >= 6
    THEN [wall2DArrays EXCEPT
             !.horizontal = SetCells(@, {<<i, 0>> : i \in WallIdx} \cup {<<i, 7>> : i \in WallIdx},
                                     TRUE)]
    ELSE wall2DArrays

\* the last step of the getter: the candidates that validNextWalls allows
andValidNextWalls(g, wall2DArrays) ==
    [horizontal |-> logicalAndBetween2DArray(wall2DArrays.horizontal, g.validNextWalls.horizontal),
     vertical |-> logicalAndBetween2DArray(wall2DArrays.vertical, g.validNextWalls.vertical)]

computeProbableValidNextWalls(g) ==
    andValidNextWalls(g,
        setWallsBesidePawn(setWallsBesidePawn(withSideWalls(g, g._probableNextWalls),
                                              pawnOfNotTurn(g)),
                           pawnOfTurn(g)))

\* the game after a read of probableValidNextWalls; the value read is its
\* _probableValidNextWalls
probableValidNextWalls(g) ==
    IF g._probableValidNextWallsUpdated = TRUE
    THEN g
    ELSE [g EXCEPT !._probableValidNextWallsUpdated = TRUE,
                   !._probableValidNextWalls = computeProbableValidNextWalls(g)]

\* the wall moves of the true cells of probableValidNextWalls
ProbableValidWallMoves(g) ==
    {HorizontalWall(c[1], c[2]) :
        c \in TrueCells(probableValidNextWalls(g)._probableValidNextWalls.horizontal)}
    \cup {VerticalWall(c[1], c[2]) :
        c \in TrueCells(probableValidNextWalls(g)._probableValidNextWalls.vertical)}

\* C26: in every state reached by doMove calls every true cell of
\* probableValidNextWalls is a legal wall: it overlaps no wall on the board
\* and leaves both pawns a path to their goal rows
C26_ProbableValidWallsAreLegal ==
    \A move \in ProbableValidWallMoves(game) : IsLegalWall(game, move)

\* the same for overlap alone
C26_ProbableValidWallsOverlapNone ==
    \A move \in ProbableValidWallMoves(game) : ~Overlaps(game, move)

\* a wall was placed and probableValidNextWalls has true cells near it
C26_OverlapNoneReached ==
    /\ Called
    /\ IsWallMove(last.move)
    /\ last.result = "true"
    /\ \E move \in ProbableValidWallMoves(game) :
           Abs(WallCell(move)[1] - WallCell(last.move)[1]) <= 1


\* C27: in every state reached by doMove calls a read of validNextPositions
\* returns the destinations that the move and jump rules give for the
\* current positions, open ways and pawn of turn, and a call that changed
\* the turn leaves both cache flags cleared
C27_ValidNextPositionsNeverStale ==
    /\ validNextPositions(game)._validNextPositions = computeValidNextPositions(game)
    /\ (Called /\ game._turn # last.before._turn) =>
           /\ game._validNextPositionsUpdated = FALSE
           /\ game._probableValidNextWallsUpdated = FALSE

\* the same for the cache flags alone
C27_TurnChangeClearsFlags ==
    (Called /\ game._turn # last.before._turn) =>
        /\ game._validNextPositionsUpdated = FALSE
        /\ game._probableValidNextWallsUpdated = FALSE

\* a checked pawn move read the cache and changed the turn
C27_FlagsClearedReached ==
    /\ Called
    /\ IsPawnMove(last.move)
    /\ last.needCheck
    /\ last.result = "true"
    /\ game._turn = last.before._turn + 1
    /\ game._validNextPositionsUpdated = FALSE


\* C28: a doMove call that returns true advances the turn by exactly one, so
\* that the pawn of turn changes from one pawn to the other, and a doMove
\* call that returns false leaves the turn as it was
C28_TurnAdvancesOnSuccessOnly ==
    Called =>
        /\ last.result = "true" =>
               /\ game._turn = last.before._turn + 1
               /\ pawnIndexOfTurn(game) = 1 - pawnIndexOfTurn(last.before)
               /\ pawnIndexOfTurn(game) \in {0, 1}
        /\ last.result = "false" => game._turn = last.before._turn

\* an unchecked wall move returned true after an earlier call
C28_Witness ==
    /\ Called
    /\ nMoves = MaxCloneMoves
    /\ IsWallMove(last.move)
    /\ ~last.needCheck
    /\ last.result = "true"
    /\ game._turn = last.before._turn + 1

\* a call returned false
C28_FalseReached ==
    /\ Called
    /\ last.result = "false"
    /\ game._turn = last.before._turn


\* the wall cells within one row and three columns of a horizontal wall, or
\* within three rows and one column of a vertical wall
CellsAround(move) ==
    {c \in WallIdx \X WallIdx :
        IF IsHorizontalWallMove(move)
        THEN Abs(c[1] - move[2][1]) <= 1 /\ Abs(c[2] - move[2][2]) <= 3
        ELSE Abs(c[1] - move[3][1]) <= 3 /\ Abs(c[2] - move[3][2]) <= 1}

\* the cells of _probableNextWalls, of either orientation, true in g and not
\* in before
AddedProbableCells(before, g) ==
    (TrueCells(g._probableNextWalls.horizontal) \ TrueCells(before._probableNextWalls.horizontal))
    \cup (TrueCells(g._probableNextWalls.vertical) \ TrueCells(before._probableNextWalls.vertical))

\* C29: a doMove call clears no cell of _probableNextWalls; a pawn move, and
\* any call that does not return true, leaves it unchanged; a wall placement
\* adds only cells around the wall placed
C29_ProbableNextWallsOnlyGrows ==
    Called =>
        /\ TrueCells(last.before._probableNextWalls.horizontal)
               \subseteq TrueCells(game._probableNextWalls.horizontal)
        /\ TrueCells(last.before._probableNextWalls.vertical)
               \subseteq TrueCells(game._probableNextWalls.vertical)
        /\ (IsPawnMove(last.move) \/ last.result # "true") =>
               game._probableNextWalls = last.before._probableNextWalls
        /\ (IsWallMove(last.move) /\ last.result = "true") =>
               AddedProbableCells(last.before, game) \subseteq CellsAround(last.move)

\* a horizontal wall was placed on a board whose candidates were not empty, and
\* added cells to them
C29_Witness ==
    /\ Called
    /\ IsHorizontalWallMove(last.move)
    /\ last.result = "true"
    /\ TrueCells(last.before._probableNextWalls.vertical) # {}
    /\ AddedProbableCells(last.before, game) # {}
    /\ ~(TrueCells(last.before._probableNextWalls.vertical)
            \subseteq {c \in WallIdx \X WallIdx : c[1] = last.move[2][1]})

\* a pawn moved on a board whose candidates were not empty
C29_PawnMoveReached ==
    /\ Called
    /\ IsPawnMove(last.move)
    /\ last.result = "true"
    /\ TrueCells(game._probableNextWalls.horizontal) # {}


IsPrefix(s, t) == Len(s) <= Len(t) /\ \A i \in 1..Len(s) : s[i] = t[i]

\* the snapshots two lists have at the same places are the same
SamePlacesAlike(s, t) ==
    \A i \in 1..(IF Len(s) <= Len(t) THEN Len(s) ELSE Len(t)) : s[i] = t[i]

\* C30: no step of the controller changes a snapshot kept in gameHistory or
\* in gameHistoryTrashCan: a move, a rejected move and the cache reads they
\* make on controller.game leave every snapshot that stays in its list as it
\* was, undo moves the last snapshot of gameHistory to gameHistoryTrashCan
\* unchanged, and redo puts an equal one back
C30_SnapshotsNeverChange ==
    [][evt'.kind # "startNewGame" =>
          /\ SamePlacesAlike(ctl.gameHistory, ctl'.gameHistory)
          /\ SamePlacesAlike(ctl.gameHistoryTrashCan, ctl'.gameHistoryTrashCan)
          /\ (evt'.kind = "undo" /\ Len(ctl.gameHistory) > 1) =>
                 /\ ctl'.gameHistoryTrashCan
                        = Append(ctl.gameHistoryTrashCan, ctl.gameHistory[Len(ctl.gameHistory)])
                 /\ IsPrefix(ctl'.gameHistory, ctl.gameHistory)
          /\ (evt'.kind = "redo" /\ Len(ctl.gameHistoryTrashCan) > 0) =>
                 /\ ctl'.gameHistory
                        = Append(ctl.gameHistory,
                                 ctl.gameHistoryTrashCan[Len(ctl.gameHistoryTrashCan)])
                 /\ IsPrefix(ctl'.gameHistoryTrashCan, ctl.gameHistoryTrashCan)
          /\ evt'.kind \in {"doMove", "aiReturns"} =>
                 IsPrefix(ctl.gameHistory, ctl'.gameHistory)]_vars

\* a second move changed controller.game while the snapshot of the first,
\* taken of the game as it was before the second, is in gameHistory
C30_Witness ==
    /\ evt.kind = "doMove"
    /\ evt.result = "true"
    /\ Len(evt.before.gameHistory) >= 2
    /\ game # evt.before.game
    /\ Len(ctl.gameHistory) = Len(evt.before.gameHistory) + 1
    /\ validNextPositions(ctl.gameHistory[Len(evt.before.gameHistory)]) = evt.before.game

\* a move was rejected while snapshots are kept in both lists
C30_RejectedReached ==
    /\ evt.kind = "doMove"
    /\ evt.result = "false"
    /\ Len(ctl.gameHistory) >= 1
    /\ Len(ctl.gameHistoryTrashCan) >= 1

\* a redo put a snapshot back
C30_RedoReached ==
    /\ evt.kind = "redo"
    /\ Len(ctl.gameHistory) = Len(evt.before.gameHistory) + 1


(***************************************************************************)
(* The pawns never share a cell.                                           *)
(***************************************************************************)
\* the cells the validNextPositions getter marks when read on g
MarkedCells(g) == TrueCells(validNextPositions(g)._validNextPositions)

\* C31: in every state reached by checked moves the two pawns stand on
\* different cells, and every cell the validNextPositions getter marks lies
\* inside the board and is neither the cell of the pawn of turn nor the cell
\* of the other pawn
C31_PawnsNeverShareACell ==
    /\ Me(game) # Opp(game)
    /\ \A cell \in MarkedCells(game) :
           InBoard(cell) /\ cell # Me(game) /\ cell # Opp(game)

\* a checked pawn move has been accepted while the pawns are neighbours and
\* a jump is on offer
C31_Witness ==
    /\ last.result = "true" /\ IsPawnMove(last.move)
    /\ \E d \in Directions : Plus(Me(game), d) = Opp(game)
    /\ \E cell \in MarkedCells(game) :
           Abs(cell[1] - Me(game)[1]) + Abs(cell[2] - Me(game)[2]) = 2


(***************************************************************************)
(* No stalemate.                                                           *)
(***************************************************************************)
\* the neighbouring cells of the pawn of turn that no wall separates from it
OpenNeighbours(g) == {Plus(Me(g), d) : d \in {d \in Directions : WayOpen(g, Me(g), d)}}

\* C32: in every state of legal play in which winner is null the
\* validNextPositions getter marks at least one cell for the pawn of turn
C32_NoStalemate == game.winner = Null => MarkedCells(game) # {}

\* a legal move has been made, no pawn has won, and the other pawn stands on
\* the only open neighbouring cell of the pawn of turn
C32_Witness ==
    /\ last.result = "true"
    /\ game.winner = Null
    /\ OpenNeighbours(game) = {Opp(game)}

\* the same, with the cell behind the other pawn closed: the destination is
\* beside the other pawn
C32_LateralOnlyReached ==
    /\ C32_Witness
    /\ \A cell \in MarkedCells(game) : cell[1] = Opp(game)[1]


(***************************************************************************)
(* The winner once it is set.                                              *)
(***************************************************************************)
\* C33: once winner is set to a pawn, no doMove call sets it to the other
\* pawn or back to null
C33_WinnerIsStable == [][game.winner # Null => game'.winner = game.winner]_vars

\* the part that holds: a winner that is set is never cleared
C33_WinnerNeverCleared == [][game.winner # Null => game'.winner # Null]_vars

\* a call has been accepted after a pawn had won
C33_MoveAfterWinReached ==
    /\ last.result = "true"
    /\ nMoves > 1
    /\ game.winner # Null


(***************************************************************************)
(* A rejected pawn move.                                                   *)
(***************************************************************************)
\* the fields of g that a rejected pawn move is to leave alone
PlayState(g) ==
    [positions |-> [i \in 0..1 |-> g.board.pawns[i].position],
     winner |-> g.winner,
     turn |-> g._turn,
     walls |-> g.board.walls,
     openWays |-> g.openWays,
     numberOfLeftWalls |-> [i \in 0..1 |-> g.board.pawns[i].numberOfLeftWalls]]

\* the last call was doMove(move, true) with a pawn target that the
\* validNextPositions getter did not mark
UnmarkedPawnMove ==
    /\ Called /\ last.needCheck /\ IsPawnMove(last.move)
    /\ last.move[1] \notin MarkedCells(last.before)

\* C34: doMove(move, true) with a pawn target that validNextPositions does
\* not mark returns false and leaves pawn positions, winner, turn, walls,
\* openWays and both wall counts as they were
C34_RejectedPawnMoveChangesNothing ==
    UnmarkedPawnMove => last.result = "false" /\ PlayState(game) = PlayState(last.before)

\* such a call has been made with the cell of the other pawn as target
C34_Witness == UnmarkedPawnMove /\ last.move[1] = Cell(pawnOfNotTurn(last.before).position)


(***************************************************************************)
(* What a successful move changes.                                         *)
(***************************************************************************)
\* g with the fields a pawn move of pawn i may change taken from h
WithPawnMoveFieldsOf(g, h, i) ==
    [g EXCEPT !.board.pawns[i].position = h.board.pawns[i].position,
              !.winner = h.winner,
              !._turn = h._turn,
              !._validNextPositions = h._validNextPositions,
              !._validNextPositionsUpdated = h._validNextPositionsUpdated,
              !._probableValidNextWallsUpdated = h._probableValidNextWallsUpdated]

Succeeded == Called /\ last.result = "true"

\* C35: a doMove call that returns true for a pawn move changes only the
\* position of the pawn of turn, winner, turn and the cache of the getters,
\* leaving board.walls, openWays, validNextWalls, both numberOfLeftWalls and
\* the other pawn's position as they were; one that returns true for a wall
\* leaves both positions and winner as they were and takes exactly 1 from
\* the numberOfLeftWalls of the pawn of turn and nothing from the other's
C35_MoveChangesOnlyItsOwn ==
    Succeeded =>
        /\ IsPawnMove(last.move) =>
               /\ game = WithPawnMoveFieldsOf(last.before, game, Mover)
               /\ PlayState(game).walls = PlayState(last.before).walls
               /\ PlayState(game).openWays = PlayState(last.before).openWays
               /\ game.validNextWalls = last.before.validNextWalls
               /\ PlayState(game).numberOfLeftWalls = PlayState(last.before).numberOfLeftWalls
               /\ PlayState(game).positions[1 - Mover] = PlayState(last.before).positions[1 - Mover]
        /\ IsWallMove(last.move) =>
               /\ PlayState(game).positions = PlayState(last.before).positions
               /\ game.winner = last.before.winner
               /\ PlayState(game).numberOfLeftWalls[Mover]
                      = PlayState(last.before).numberOfLeftWalls[Mover] - 1
               /\ PlayState(game).numberOfLeftWalls[1 - Mover]
                      = PlayState(last.before).numberOfLeftWalls[1 - Mover]

\* a wall has been placed after a pawn move
C35_Witness ==
    /\ Succeeded /\ IsWallMove(last.move)
    /\ PlayState(game).positions # PlayState(Game(TRUE)).positions
    /\ PlayState(game).positions # PlayState(Game(FALSE)).positions

\* a pawn move has been accepted on a board with walls
C35_PawnMoveReached ==
    /\ Succeeded /\ IsPawnMove(last.move)
    /\ PlayState(game).positions # PlayState(last.before).positions
    /\ TrueCells(game.board.walls.horizontal) \cup TrueCells(game.board.walls.vertical) # {}


(***************************************************************************)
(* The last snapshot of gameHistory and the live game.                     *)
(***************************************************************************)
\* the last event was startNewGame, Controller.doMove, undo or redo, and it
\* has run to its end (no call of aiDo is pending)
HistoryOperationDone ==
    /\ evt.kind \in {"startNewGame", "doMove", "aiReturns", "undo", "redo"}
    /\ ctl.search = Null

LastSnapshot == ctl.gameHistory[Len(ctl.gameHistory)]

\* C36: after startNewGame and after every Controller.doMove, undo and redo,
\* gameHistory is not empty and its last snapshot is equal to
\* controller.game in every field
C36_LastSnapshotIsLiveGame ==
    HistoryOperationDone => ctl.gameHistory # <<>> /\ LastSnapshot = game

\* the part that holds: gameHistory is not empty
C36_HistoryNeverEmpty == HistoryOperationDone => ctl.gameHistory # <<>>

\* and after startNewGame and after a Controller.doMove that succeeded the
\* last snapshot and the game agree on positions, winner, turn, walls, open
\* ways and wall counts
C36_SnapshotAgreesOnPlay ==
    (HistoryOperationDone /\ (evt.kind = "startNewGame" \/ evt.result = "true"))
        => PlayState(LastSnapshot) = PlayState(game)

\* a Controller.doMove was rejected, and the last snapshot and the game differ
\* in openWays
C36_OpenWaysDifferReached ==
    /\ HistoryOperationDone /\ evt.result = "false"
    /\ LastSnapshot.openWays # game.openWays

\* a redo has been done after an undo
C36_RedoReached == HistoryOperationDone /\ evt.kind = "redo" /\ Len(ctl.gameHistory) > 1


(***************************************************************************)
(* Undo followed by redo.                                                  *)
(***************************************************************************)
\* the game and the two stacks of the controller state cs
Stacks(cs) ==
    [game |-> cs.game,
     gameHistory |-> cs.ctl.gameHistory,
     gameHistoryTrashCan |-> cs.ctl.gameHistoryTrashCan]

UndoThenRedo(cs) == Controller_redo(Controller_undo(cs))

\* undo, then redo, called in the current state give back the game and the
\* two stacks
UndoRedoRestores == Stacks(UndoThenRedo(Cs)) = Stacks(Cs)

\* undo on a single snapshot changes neither the game nor a stack, and
\* neither does redo on an empty trash can
UndoRedoNoOps ==
    /\ Len(ctl.gameHistory) <= 1 => Stacks(Controller_undo(Cs)) = Stacks(Cs)
    /\ ctl.gameHistoryTrashCan = <<>> => Stacks(Controller_redo(Cs)) = Stacks(Cs)

\* C37: in every state in which the user can act, with more than one
\* snapshot in gameHistory undo followed by redo restores controller.game,
\* gameHistory and gameHistoryTrashCan; undo on the initial snapshot alone and
\* redo on an empty trash can change none of the three
C37_UndoRedoAreInverse ==
    ctl.search = Null =>
        /\ Len(ctl.gameHistory) > 1 => UndoRedoRestores
        /\ UndoRedoNoOps

\* the part that holds: the two stacks are restored, and the no-ops change
\* nothing
C37_StacksRestored ==
    ctl.search = Null =>
        /\ Len(ctl.gameHistory) > 1 =>
               /\ UndoThenRedo(Cs).ctl.gameHistory = ctl.gameHistory
               /\ UndoThenRedo(Cs).ctl.gameHistoryTrashCan = ctl.gameHistoryTrashCan
        /\ UndoRedoNoOps

\* and the game is restored too when no Controller.doMove has been rejected
\* since the last snapshot was taken, that is when the game has the open
\* ways of the last snapshot
C37_GameRestoredUnlessRejected ==
    (ctl.search = Null /\ Len(ctl.gameHistory) > 1 /\ LastSnapshot.openWays = game.openWays)
        => UndoRedoRestores

\* undo is possible with a snapshot in the trash can already
C37_UndoAfterUndoReached ==
    /\ ctl.search = Null
    /\ Len(ctl.gameHistory) > 1
    /\ ctl.gameHistoryTrashCan # <<>>
    /\ UndoRedoRestores


(***************************************************************************)
(* A new move and the two stacks.                                          *)
(***************************************************************************)
\* the last event was a Controller.doMove whose move the game accepted
MoveAccepted == evt.kind \in {"doMove", "aiReturns"} /\ evt.result = "true"

\* C38: a Controller.doMove that succeeds empties gameHistoryTrashCan and
\* appends exactly one snapshot to gameHistory, so that a redo after it
\* changes nothing; and gameHistory always holds one snapshot more than the
\* number of moves made on the current line of play, the turn of the game
C38_NewMoveEmptiesTrashCan ==
    /\ Len(ctl.gameHistory) = game._turn + 1
    /\ MoveAccepted =>
           /\ ctl.gameHistoryTrashCan = <<>>
           /\ Len(ctl.gameHistory) = Len(evt.before.gameHistory) + 1
           /\ SubSeq(ctl.gameHistory, 1, Len(evt.before.gameHistory)) = evt.before.gameHistory
           /\ Stacks(Controller_redo(Cs)) = Stacks(Cs)

\* a move has been accepted while the trash can held a snapshot
C38_Witness == MoveAccepted /\ evt.before.gameHistoryTrashCan # <<>>

\* the AI has moved first in a new game: two snapshots after one move
C38_AiMovedFirstReached ==
    /\ evt.kind = "aiReturns" /\ evt.result = "true"
    /\ Len(ctl.gameHistory) = 2


(***************************************************************************)
(* The analysis follows the game while MCTS mode is on.                    *)
(***************************************************************************)
\* the workers that are not terminated and have been sent a search request
LiveSessions == {id \in WorkerIds : ~ctl.workers[id].terminated /\ ctl.workers[id].job # Null}

\* the last event was one of the four wrapped methods of the page
HookedOperationDone ==
    /\ ctl.hooked
    /\ evt.kind \in {"doMove", "undo", "redo", "startNewGame"}

\* the search requests sent so far were all sent before the last event
NoRequestSent ==
    \A id \in WorkerIds :
        ctl.workers[id].job # Null
            => /\ id <= Len(evt.before.workers)
               /\ evt.before.workers[id].job = ctl.workers[id].job

\* C39: on the page with the wrapped methods, while MCTS mode is on, after
\* each wrapped doMove, undo, redo and startNewGame the game that every live
\* worker session was sent is equal to the controller's current game, and no
\* other event changes the controller's game until the next of them; every
\* worker but the one the controller holds is terminated; while MCTS mode is
\* off these four send no search request
C39_AnalysisFollowsGame ==
    /\ (HookedOperationDone /\ ctl.mctsMode) =>
           \A id \in LiveSessions : ctl.workers[id].job[1] = game
    /\ (ctl.hooked /\ ~HookedOperationDone) => game = evt.before.game
    /\ (ctl.hooked /\ ctl.mctsMode) =>
           \A id \in WorkerIds : ~ctl.workers[id].terminated => ctl.worker = <<id>>
    /\ (HookedOperationDone /\ ~ctl.mctsMode) => NoRequestSent

\* with MCTS mode on a move has been accepted while a session was live, and a
\* session is live after it
C39_Witness ==
    /\ HookedOperationDone /\ ctl.mctsMode
    /\ evt.kind = "doMove" /\ evt.result = "true"
    /\ evt.before.worker # Null
    /\ evt.before.workers[evt.before.worker[1]].job # Null
    /\ LiveSessions # {}

\* with MCTS mode off a move has been accepted while an analysis asked for
\* directly was live
C39_OffReached ==
    /\ HookedOperationDone /\ ~ctl.mctsMode
    /\ evt.result = "true"
    /\ LiveSessions # {}


(***************************************************************************)
(* One request to a worker, from showMCTSCandidates to the last message:   *)
(* the controller of the page on a game in play and on a game that is won, *)
(* with an analysis asked for.                                             *)
(***************************************************************************)
\* the game is won by the pawn that moves first
OpeningWon == OpeningEndgame \o <<PawnMove(0, 3)>>

SessionOpenings == {<<>>, OpeningWon}

SessionInit ==
    \E moves \in SessionOpenings :
        CtlStartsAt(Controller_showMCTSCandidates(
                        CtlReplay(Loaded([aiDevelopMode |-> TRUE, hooked |-> TRUE]), moves)))

SessionNext ==
    \/ UiShowMCTSCandidates
    \/ WorkerPosts
    \/ WorkerSimulates
    \/ WorkerFinishes
    \/ WorkerFails
    \/ DispatchesMessage
    \/ DispatchesError

SessionSpec == SessionInit /\ [][SessionNext]_vars

\* the workers that were sent a request
Requested == {id \in WorkerIds : ctl.workers[id].job # Null}

\* the final message is in the queue of w, as its last message
FinalIsLast(w) == w.queue # <<>> /\ w.queue[Len(w.queue)] = "final"

\* C40: a worker whose request has a game with no winner posts the final
\* message once, as the last message of the request: no message of its queue
\* comes after a final message, none is final before the search has returned,
\* and once it has returned the final message is the last of the queue until
\* the controller, on receiving it, closes the session; a worker whose
\* request has a game with a winner posts nothing, and no final message
\* received by the controller comes from such a worker
C40_OneFinalMessageLast ==
    /\ \A id \in Requested :
           /\ \A i \in 1..Len(ctl.workers[id].queue) :
                  ctl.workers[id].queue[i] = "final"
                      => i = Len(ctl.workers[id].queue) /\ ctl.workers[id].finished
           /\ (ctl.workers[id].finished /\ ~ctl.workers[id].terminated)
                  => FinalIsLast(ctl.workers[id])
           /\ ctl.workers[id].job[1].winner # Null
                  => ctl.workers[id].queue = <<>> /\ ~ctl.workers[id].finished
    /\ evt.kind = "final" =>
           /\ evt.before.workers[evt.from].job[1].winner = Null
           /\ evt.before.workers[evt.from].finished
           /\ evt.before.workers[evt.from].queue = <<"final">>
           /\ ctl.workers[evt.from].terminated
           /\ ctl.worker = Null

\* the final message has been received after an earlier message of the same
\* request
C40_Witness ==
    /\ evt.kind = "final"
    /\ ctl.progress = 100
    /\ evt.before.workerCandidates = <<evt.from>>

\* the worker of a request with a won game is live and silent after three
\* events
C40_DecidedReached ==
    /\ nMoves >= 3
    /\ \E id \in Requested :
           /\ ctl.workers[id].job[1].winner # Null
           /\ ~ctl.workers[id].terminated
           /\ ctl.worker = <<id>>

\* a progress message and the final message wait in the queue
C40_FinalAfterProgressReached ==
    \E id \in Requested : ctl.workers[id].queue = <<"progress", "final">>

====
